---- MODULE Spec2Model ----
(***************************************************************************)
(* Goal-based escrow backend (routes/goals.js, models/User.js, models/Goal). *)
(*                                                                         *)
(* The persistent state is one user's wallet and the user's goals, each    *)
(* with its embedded milestones.  Requests are handled concurrently by the *)
(* event loop: a handler runs atomically from one `await` on a database    *)
(* operation to the next, so every database read and every database write  *)
(* of a handler is one step, and the steps of different requests           *)
(* interleave freely.                                                      *)
(*                                                                         *)
(* Numbers are JavaScript numbers (IEEE 754 doubles) and the arithmetic of  *)
(* the handlers is done on them as the program does it.  A deposit, a      *)
(* percentage and a released amount are written k for the double nearest   *)
(* to k / 100 (what a decimal literal with two decimals, and               *)
(* Math.round(y) / 100, evaluate to); a wallet balance, the result of      *)
(* additions and subtractions, is held as the double itself.               *)
(* Mongoose's document.save() sends a $set of the paths the handler        *)
(* modified on its loaded copy (no version check on these paths), after    *)
(* running the schema validators and the pre-save hooks.                   *)
(***************************************************************************)
EXTENDS Integers, Sequences, FiniteSets, TLC

VARIABLES
    walletBalance,  \* User.walletBalance as stored, a double
    goals,          \* the stored Goal documents, in creation order
    pc,             \* per request: the await the handler is suspended at
    loc,            \* per request: the handler's local variables
    resp,           \* per request: the response sent ("" while in flight)
    wrote,          \* per request: the collections its saves have reached
    wallet0,        \* the wallet balance when the requests started
    otherWallet,    \* User.walletBalance of a second user, a double
    users           \* the registered accounts: name, email and passwordHash as stored

vars == <<walletBalance, goals, pc, loc, resp, wrote, wallet0, otherWallet, users>>

(***************************** bounds **************************************)

\* Number of requests handled (each may overlap with every other one).
NumRequests == 2

Requests == 1..NumRequests

\* Longest milestone list enumerated for the external proposal service (a
\* nine-element answer is sampled besides).
MaxPlanLength == 4

(************************* program constants *******************************)

StartingBalance == 10000        \* walletBalance default: 100 (in hundredths)
WalletMax == 100000000          \* walletBalance max: 1000000 (in hundredths)
MinDeposit == 100               \* validateGoalCreation: depositAmount < 1
MaxDeposit == 1000000           \* validateGoalCreation: depositAmount > 10000
MinTitleLength == 5             \* validateGoalCreation: title.trim().length < 5
MinMilestones == 3              \* create: milestones.length < 3
MaxMilestones == 8              \* create: milestones.length > 8
HookTolerance == 1              \* goal pre-save hook: |total - 100| > 1
ApproveConfidence == 70         \* submit-proof: confidence >= 70
ReviewConfidence == 50          \* submit-proof: confidence < 50
SelfCertifyConfidence == 50     \* submit-proof: self-certified result
MaxConfidence == 100            \* verifyMilestoneWithAI: confidence maximum
MinPercentage == 500            \* callGeminiAPI: milestone.percentage < 5
MaxPercentage == 5000           \* callGeminiAPI: milestone.percentage > 50
NormalizeTolerance == 5         \* callGeminiAPI: |total - 100| > 5
MaxTitleLength == 500           \* goalSchema.title: maxlength 500
MaxDescriptionLength == 500     \* milestoneSchema.description: maxlength 500
FixLength == 500                \* validateAndFixMilestones: description.length > 500
CutLength == 497                \* validateAndFixMilestones: substring(0, 497)

(***************************** titles, names *******************************)

\* A title, or a name, as sent: the characters from its first to its last non-blank
\* one, and the blanks around them. None, or an empty one, has neither.
Title(padding, chars) == [padding |-> padding, chars |-> chars]

\* title.trim().length
TrimmedLengthRaw(title) == title.padding + title.chars
TrimmedLength(title) == title.chars

\* title.trim()
TitleTrim(title) == [title EXCEPT !.padding = 0]

(******************************** users ************************************)

\* req.user.id of the two users: walletBalance is UserA's wallet and
\* otherWallet is UserB's.
UserA == "userA"
UserB == "userB"
Users == {UserA, UserB}

\* validateRegistration's bounds.
MinNameLength == 2              \* name.trim().length < 2
MinPasswordLength == 6          \* password.length < 6

\* The User schema's bounds.
NameMinLength == 2              \* UserSchema.name: minlength 2
NameMaxLength == 100            \* UserSchema.name: maxlength 100
PasswordHashMinLength == 6      \* UserSchema.passwordHash: minlength 6

\* An email as sent: its local part, whether it is written with capitals,
\* and its form ("missing": none sent, "noAt": no '@' in it, "malformed": an
\* '@' but no match of the schema's pattern, "valid": a match).
Email(local, upper, form) == [local |-> local, upper |-> upper, form |-> form]

\* email.toLowerCase()
ToLowerCase(email) == [email EXCEPT !.upper = FALSE]

\* A string that holds a password: its UTF-8 bytes, as bcrypt reads them.
Password(bytes) == [bytes |-> bytes]

\* s.length of a password or of a bcrypt hash: the UTF-16 code units of the
\* password (one for a character of up to three bytes, two for one of four,
\* none for a continuation byte), and the 60 characters of a hash.
RECURSIVE CodeUnits(_)
CodeUnits(bytes) ==
    IF bytes = <<>> THEN 0
    ELSE (IF Head(bytes) \in 128..191 THEN 0
          ELSE IF Head(bytes) >= 240 THEN 2 ELSE 1) + CodeUnits(Tail(bytes))
StringLength(s) == IF "bytes" \in DOMAIN s THEN CodeUnits(s.bytes) ELSE 60

\* What bcrypt hashes of the string it is given: its first 72 bytes.  A hash
\* is a string of 60 bytes, read whole.
BcryptBytes == 72
BcryptKey(data) ==
    IF "bytes" \in DOMAIN data /\ Len(data.bytes) > BcryptBytes
    THEN [bytes |-> SubSeq(data.bytes, 1, BcryptBytes)]
    ELSE data

\* bcrypt.hash(data, 12): a hash of the string it is given, whatever that
\* string is, a password or a hash.  (The salt is left out: no two hashes are
\* compared as strings, and no password sent is the text of a stored hash.)
BcryptHash(data) == [hashOf |-> BcryptKey(data)]

\* bcrypt.compare(plain, stored): stored is the hash of plain, computed with
\* the salt read from stored.
BcryptCompare(plain, stored) ==
    "hashOf" \in DOMAIN stored /\ stored.hashOf = BcryptKey(plain)

\* UserSchema.pre('save'): passwordHash is hashed when it is new or modified.
UserPreSave(doc, modified) ==
    IF modified THEN [doc EXCEPT !.passwordHash = BcryptHash(@)] ELSE doc

\* The User schema's validators on the paths the register route sets: the
\* name's length after its trim, the email pattern, the length of
\* passwordHash (walletBalance 100 passes its bounds).
UserSaveAccepts(doc) ==
    /\ TrimmedLength(doc.name) >= NameMinLength
    /\ TrimmedLength(doc.name) <= NameMaxLength
    /\ doc.email.form = "valid"
    /\ StringLength(doc.passwordHash) >= PasswordHashMinLength

\* User.findOne({ email }): the stored documents with that email.
UserFindOne(us, email) == {u \in us : u.email = email}

\* The document POST /register stores for an email and a password.
RegisteredAccount(name, email, password) ==
    UserPreSave([name |-> TitleTrim(name),
                 email |-> ToLowerCase(email),
                 passwordHash |-> BcryptHash(password)], TRUE)

\* The password "first123".
FirstPassword == Password(<<102, 105, 114, 115, 116, 49, 50, 51>>)

\* The accounts of the two users, as registered.
KnownAccounts ==
    {RegisteredAccount(Title(0, 3), Email(u, FALSE, "valid"), FirstPassword) :
        u \in Users}

(************************** JavaScript numbers *****************************)

\* Amounts and percentages are IEEE 754 doubles in the program.  A double is
\* held exactly: value = (-1)^neg * m * 2^e, with m a natural number of at
\* most 53 bits written in base 2^15, least significant digit first, odd
\* unless the value is 0.  The magnitudes of the program stay far from the
\* format's overflow and underflow, which are not modelled.
Base == 32768
Precision == 53

\* The natural numbers so written, the doubles, a quotient with its
\* remainder, and the ways a half is rounded.  The operations are functions
\* of these: an operation is applied to values.
Limbs == Seq(Nat)
Doubles == [kind : {"number", "NaN", "Infinity"}, neg : BOOLEAN, m : Limbs, e : Int]
Quotients == [q : Limbs, r : Limbs]
Halves == {"even", "up", "down"}

Trim[a \in Limbs] ==
    IF a # <<>> /\ a[Len(a)] = 0 THEN Trim[SubSeq(a, 1, Len(a) - 1)] ELSE a

NFromInt[i \in Int] == IF i = 0 THEN <<>> ELSE <<i % Base>> \o NFromInt[i \div Base]

NToInt[a \in Limbs] == IF a = <<>> THEN 0 ELSE a[1] + Base * NToInt[Tail(a)]

Digit[a \in Limbs, i \in Int] == IF i <= Len(a) THEN a[i] ELSE 0

NAddFrom[a \in Limbs, b \in Limbs, i \in Int, carry \in Int] ==
    IF i > Len(a) /\ i > Len(b)
    THEN IF carry = 0 THEN <<>> ELSE <<carry>>
    ELSE LET s == Digit[a, i] + Digit[b, i] + carry
         IN  <<s % Base>> \o NAddFrom[a, b, i + 1, s \div Base]
NAdd[a \in Limbs, b \in Limbs] == NAddFrom[a, b, 1, 0]

\* a - b for a >= b
NSubFrom[a \in Limbs, b \in Limbs, i \in Int, borrow \in Int] ==
    IF i > Len(a) THEN <<>>
    ELSE LET d == a[i] - Digit[b, i] - borrow
         IN  IF d < 0 THEN <<d + Base>> \o NSubFrom[a, b, i + 1, 1]
                      ELSE <<d>> \o NSubFrom[a, b, i + 1, 0]
NSub[a \in Limbs, b \in Limbs] == Trim[NSubFrom[a, b, 1, 0]]

\* -1, 0 or 1 as a is less than, equal to or greater than b
NCmpFrom[a \in Limbs, b \in Limbs, i \in Int] ==
    IF i = 0 THEN 0
    ELSE IF a[i] < b[i] THEN -1
    ELSE IF a[i] > b[i] THEN 1
    ELSE NCmpFrom[a, b, i - 1]
NCmp[a \in Limbs, b \in Limbs] ==
    IF Len(a) < Len(b) THEN -1
    ELSE IF Len(a) > Len(b) THEN 1
    ELSE NCmpFrom[a, b, Len(a)]

\* a * k for a digit k
NMulSmallFrom[a \in Limbs, k \in Int, i \in Int, carry \in Int] ==
    IF i > Len(a)
    THEN IF carry = 0 THEN <<>> ELSE <<carry>>
    ELSE LET p == a[i] * k + carry
         IN  <<p % Base>> \o NMulSmallFrom[a, k, i + 1, p \div Base]
NMulSmall[a \in Limbs, k \in Int] == Trim[NMulSmallFrom[a, k, 1, 0]]

\* a * Base^n
ShiftDigits[a \in Limbs, n \in Int] == IF a = <<>> THEN <<>> ELSE [i \in 1..n |-> 0] \o a

NMulFrom[a \in Limbs, b \in Limbs, i \in Int] ==
    IF i > Len(b) THEN <<>>
    ELSE NAdd[NMulSmall[a, b[i]], ShiftDigits[NMulFrom[a, b, i + 1], 1]]
NMul[a \in Limbs, b \in Limbs] == NMulFrom[a, b, 1]

\* a divided by a digit d: the remainder left by the digits from i up, and
\* the quotient.
NRemFrom[a \in Limbs, d \in Int, i \in Int] ==
    IF i > Len(a) THEN 0 ELSE (NRemFrom[a, d, i + 1] * Base + a[i]) % d
NDivSmall[a \in Limbs, d \in Int] ==
    Trim[[i \in 1..Len(a) |-> (NRemFrom[a, d, i + 1] * Base + a[i]) \div d]]

\* a * 2^n, a \div 2^n, a % 2^n
NShl[a \in Limbs, n \in Int] == ShiftDigits[NMulSmall[a, 2 ^ (n % 15)], n \div 15]
NShr[a \in Limbs, n \in Int] ==
    IF n \div 15 >= Len(a) THEN <<>>
    ELSE NDivSmall[SubSeq(a, n \div 15 + 1, Len(a)), 2 ^ (n % 15)]
NLow[a \in Limbs, n \in Int] ==
    IF n \div 15 >= Len(a) THEN a
    ELSE Trim[SubSeq(a, 1, n \div 15) \o <<a[n \div 15 + 1] % (2 ^ (n % 15))>>]

BitLength[k \in Int] == IF k = 0 THEN 0 ELSE 1 + BitLength[k \div 2]
NBitLength[a \in Limbs] ==
    IF a = <<>> THEN 0 ELSE 15 * (Len(a) - 1) + BitLength[a[Len(a)]]

TrailingZeros[k \in Int] == IF k % 2 = 1 THEN 0 ELSE 1 + TrailingZeros[k \div 2]
NTrailingZeros[a \in Limbs] ==
    IF a[1] = 0 THEN 15 + NTrailingZeros[Tail(a)] ELSE TrailingZeros[a[1]]

\* The largest digit d with b * d <= r, for r < b * Base: bit by bit.
QuotientDigit[r \in Limbs, b \in Limbs, bit \in Int, d \in Int] ==
    IF bit < 0 THEN d
    ELSE IF NCmp[NMulSmall[b, d + 2 ^ bit], r] <= 0
    THEN QuotientDigit[r, b, bit - 1, d + 2 ^ bit]
    ELSE QuotientDigit[r, b, bit - 1, d]

\* a divided by b, digit by digit from digit i of a up: quotient and
\* remainder.  A step takes the quotient q and the remainder of the digits
\* above, brings digit k down to make r, and divides r.
NDivModDigit[q \in Limbs, r \in Limbs, b \in Limbs] ==
    LET d == QuotientDigit[r, b, 14, 0]
    IN  [q |-> Trim[<<d>> \o q], r |-> NSub[r, NMulSmall[b, d]]]
NDivModStep[qr \in Quotients, k \in Int, b \in Limbs] == NDivModDigit[qr.q, Trim[<<k>> \o qr.r], b]
NDivModFrom[a \in Limbs, b \in Limbs, i \in Int] ==
    IF i > Len(a) THEN [q |-> <<>>, r |-> <<>>]
    ELSE NDivModStep[NDivModFrom[a, b, i + 1], a[i], b]
NDivMod[a \in Limbs, b \in Limbs] ==
    IF Len(b) = 1
    THEN [q |-> NDivSmall[a, b[1]], r |-> NFromInt[NRemFrom[a, b[1], 1]]]
    ELSE NDivModFrom[a, b, 1]

JsNaN == [kind |-> "NaN", neg |-> FALSE, m |-> <<>>, e |-> 0]
JsInfinity(neg) == [kind |-> "Infinity", neg |-> neg, m |-> <<>>, e |-> 0]
JsZero == [kind |-> "number", neg |-> FALSE, m |-> <<>>, e |-> 0]
IsNaN(x) == x.kind = "NaN"
IsZero(x) == x.kind = "number" /\ x.m = <<>>

\* The double of value (-1)^neg * m * 2^e, for m of at most 53 bits.
Double[neg \in BOOLEAN, m \in Limbs, e \in Int] ==
    IF m = <<>> THEN JsZero
    ELSE LET z == NTrailingZeros[m]
         IN  [kind |-> "number", neg |-> neg, m |-> NShr[m, z], e |-> e + z]

\* m \div 2^n rounded to the nearest natural number; a half goes to the even
\* one ("even"), up ("up") or down ("down").
Nearest[q \in Limbs, c \in Int, half \in Halves] ==
    IF c > 0 \/ (c = 0 /\ (half = "up" \/ (half = "even" /\ q[1] % 2 = 1)))
    THEN NAdd[q, <<1>>]
    ELSE q
NShrNearest[m \in Limbs, n \in Int, half \in Halves] ==
    Nearest[NShr[m, n], NCmp[NLow[m, n], NShl[<<1>>, n - 1]], half]

\* The double nearest to (-1)^neg * m * 2^e, a tie going to the even one.
RoundToDouble[neg \in BOOLEAN, m \in Limbs, e \in Int] ==
    LET excess == NBitLength[m] - Precision IN
    IF excess <= 0 THEN Double[neg, m, e]
    ELSE Double[neg, NShrNearest[m, excess, "even"], e + excess]

\* An integer as a double (a JSON or source literal without decimals).
FromInt[i \in Int] == Double[i < 0, NFromInt[IF i < 0 THEN -i ELSE i], 0]

JsNeg(x) == IF IsZero(x) \/ IsNaN(x) THEN x ELSE [x EXCEPT !.neg = ~@]
MathAbs(x) == [x EXCEPT !.neg = FALSE]

\* (-1)^xneg * a * 2^e + (-1)^yneg * b * 2^e
AddAligned[xneg \in BOOLEAN, a \in Limbs, yneg \in BOOLEAN, b \in Limbs, e \in Int] ==
    IF xneg = yneg THEN RoundToDouble[xneg, NAdd[a, b], e]
    ELSE IF NCmp[a, b] >= 0 THEN RoundToDouble[xneg, NSub[a, b], e]
    ELSE RoundToDouble[yneg, NSub[b, a], e]

\* x + y
JsAdd[x \in Doubles, y \in Doubles] ==
    IF IsNaN(x) \/ IsNaN(y) THEN JsNaN
    ELSE IF x.kind = "Infinity"
    THEN IF y.kind = "Infinity" /\ y.neg # x.neg THEN JsNaN ELSE x
    ELSE IF y.kind = "Infinity" THEN y
    ELSE IF IsZero(x) THEN y
    ELSE IF IsZero(y) THEN x
    ELSE LET e == IF x.e < y.e THEN x.e ELSE y.e
         IN  AddAligned[x.neg, NShl[x.m, x.e - e], y.neg, NShl[y.m, y.e - e], e]

\* x - y
JsSub[x \in Doubles, y \in Doubles] == JsAdd[x, JsNeg(y)]

\* x * y
JsMul[x \in Doubles, y \in Doubles] ==
    IF IsNaN(x) \/ IsNaN(y) THEN JsNaN
    ELSE IF x.kind = "Infinity" \/ y.kind = "Infinity"
    THEN IF IsZero(x) \/ IsZero(y) THEN JsNaN ELSE JsInfinity(x.neg # y.neg)
    ELSE IF IsZero(x) \/ IsZero(y) THEN JsZero
    ELSE RoundToDouble[x.neg # y.neg, NMul[x.m, y.m], x.e + y.e]

\* The double nearest to (-1)^neg * (qr.q + t) * 2^(e + 1), for a quotient
\* qr.q taken to two bits more than a double holds and 0 <= t < 1 with t = 0
\* exactly when the remainder qr.r is 0: a last bit says whether anything
\* remains.
RoundQuotient[neg \in BOOLEAN, qr \in Quotients, e \in Int] ==
    RoundToDouble[neg,
                  NAdd[NMulSmall[qr.q, 2], IF qr.r = <<>> THEN <<>> ELSE <<1>>],
                  e]

\* x / y
JsDiv[x \in Doubles, y \in Doubles] ==
    IF IsNaN(x) \/ IsNaN(y) THEN JsNaN
    ELSE IF x.kind = "Infinity"
    THEN IF y.kind = "Infinity" THEN JsNaN ELSE JsInfinity(x.neg # y.neg)
    ELSE IF y.kind = "Infinity" THEN JsZero
    ELSE IF IsZero(y) THEN IF IsZero(x) THEN JsNaN ELSE JsInfinity(x.neg # y.neg)
    ELSE IF IsZero(x) THEN JsZero
    ELSE LET need == Precision + 2 + NBitLength[y.m] - NBitLength[x.m]
             k == IF need > 0 THEN need ELSE 0
         IN  RoundQuotient[x.neg # y.neg, NDivMod[NShl[x.m, k], y.m],
                           x.e - y.e - k - 1]

\* -1, 0 or 1 as x is less than, equal to or greater than 0 (0 for NaN)
Sign[x \in Doubles] == IF IsNaN(x) \/ IsZero(x) THEN 0 ELSE IF x.neg THEN -1 ELSE 1

\* -1, 0 or 1 as x is less than, equal to or greater than y (neither NaN)
JsCompare[x \in Doubles, y \in Doubles] == Sign[JsSub[x, y]]

\* x < y, x > y, x >= y, x <= y: false when either is NaN
JsLess[x \in Doubles, y \in Doubles] == ~IsNaN(x) /\ ~IsNaN(y) /\ JsCompare[x, y] < 0
JsGreater[x \in Doubles, y \in Doubles] == JsLess[y, x]
JsAtLeast[x \in Doubles, y \in Doubles] == ~IsNaN(x) /\ ~IsNaN(y) /\ JsCompare[x, y] >= 0
JsAtMost[x \in Doubles, y \in Doubles] == JsAtLeast[y, x]

\* Math.round(x): the nearest integer, a half going up.
MathRound[x \in Doubles] ==
    IF x.kind # "number" \/ x.e >= 0 THEN x
    ELSE Double[x.neg, NShrNearest[x.m, -x.e, IF x.neg THEN "down" ELSE "up"], 0]

\* The integer a double holds (for a double that holds one).
ToInt[x \in Doubles] == (IF x.neg THEN -1 ELSE 1) * NToInt[NShl[x.m, x.e]]

(****************************** helpers ************************************)

\* A percentage that is NaN: 0 * (100 / 0), what the rescaling makes of each
\* percentage when the service's percentages are all 0. Every other
\* percentage of the model is 0 or more.
NaN == -1

\* The double written k: the one nearest to k / 100.
Num[k \in Int] == JsDiv[FromInt[k], FromInt[100]]

\* The double of a milestone's percentage.
Percentage[p \in Int] == IF p = NaN THEN JsNaN ELSE Num[p]

\* xs.reduce((sum, x) => sum + x, 0): the doubles added from left to right.
SumSeq[xs \in Seq(Doubles)] ==
    IF xs = <<>> THEN JsZero
    ELSE JsAdd[SumSeq[SubSeq(xs, 1, Len(xs) - 1)], xs[Len(xs)]]

\* Math.round(x * 100) / 100, written in hundredths.
Round2[x \in Doubles] ==
    IF IsNaN(x) THEN NaN ELSE ToInt[MathRound[JsMul[x, FromInt[100]]]]

(*************************** Goal documents *******************************)

\* The percentages of the plans a create request can end up with.  The three
\* fallback templates are fixed; the external service's answers are sampled:
\* one whose total is 101 and one whose total is 96 (both pass callGeminiAPI,
\* which rescales only when the total is off by more than 5).
FallbackSleep == <<2500, 3000, 2500, 2000>>
FallbackFitness == <<2000, 2500, 3000, 2500>>
FallbackGeneric == <<2000, 3000, 2500, 2500>>
ExternalPlans == { <<2600, 2500, 2500, 2500>>, <<2500, 2500, 2500, 2100>> }
Fallbacks == {FallbackSleep, FallbackFitness, FallbackGeneric}

\* The two templates the second variant of the create handler adds.
FallbackLearning == <<1500, 2500, 3000, 3000>>
FallbackCareer == <<2000, 3000, 2500, 2500>>

\* goalSchema.pre('save'): the percentages must total 100 within 1.
PreSaveHookAccepts(plan) ==
    LET totalPercentage == SumSeq[[i \in 1..Len(plan) |-> Percentage[plan[i]]]]
    IN  Len(plan) > 0 =>
            ~JsGreater[MathAbs(JsSub[totalPercentage, FromInt[100]]),
                       FromInt[HookTolerance]]

(******************************* Planner ***********************************)

\* What a goal title is about, as far as the fallback's keyword tests go.
Topics == {"sleep", "fitness", "learning", "career", "other"}

\* create, catch (aiError): the template the title's keywords select.
FallbackPlanShort(topic) ==
    IF topic = "sleep" THEN SubSeq(FallbackSleep, 1, 3)
    ELSE IF topic = "fitness" THEN FallbackFitness
    ELSE FallbackGeneric
FallbackPlan(topic) ==
    IF topic = "sleep" THEN FallbackSleep
    ELSE IF topic = "fitness" THEN FallbackFitness
    ELSE FallbackGeneric

\* The same choice in the second variant of the create handler.
FallbackPlanV2(topic) ==
    IF topic = "sleep" THEN FallbackSleep
    ELSE IF topic = "fitness" THEN FallbackFitness
    ELSE IF topic = "learning" THEN FallbackLearning
    ELSE IF topic = "career" THEN FallbackCareer
    ELSE FallbackGeneric

\* What the external proposal service does for one request: it fails (no
\* API key, timeout, non-2xx answer, empty or unparsable content), or it
\* answers a milestone list.  description says how long the milestones'
\* descriptions are: "short" (missing or under 20 characters), "ok", or
\* "long" (over 500 characters).
ServiceFailure(kind) == [kind |-> kind, percentages |-> <<>>, description |-> "none"]
ServiceAnswer(pcts, description) ==
    [kind |-> "answer", percentages |-> pcts, description |-> description]
NoService == ServiceFailure("")
ServiceFailures ==
    {ServiceFailure(k) : k \in {"unconfigured", "timeout", "http_error", "malformed"}}

\* callGeminiAPI: percentages rescaled to a total of 100 when the total is
\* off by more than 5, each rounded to two decimals. NaN compares false with
\* every bound.
Rescaled(pcts, totalPercentage) ==
    IF JsGreater[MathAbs(JsSub[totalPercentage, FromInt[100]]),
                 FromInt[NormalizeTolerance]]
    THEN [i \in 1..Len(pcts) |->
            Round2[JsMul[Percentage[pcts[i]],
                         JsDiv[FromInt[100], totalPercentage]]]]
    ELSE pcts
Normalize(pcts) ==
    Rescaled(pcts, SumSeq[[i \in 1..Len(pcts) |-> Percentage[pcts[i]]]])

\* callGeminiAPI (the same in both variants): throws on a failure, a short
\* description or a percentage outside [5, 50]; otherwise returns the
\* (possibly rescaled) milestones pcts.
CheckedMilestones(service, pcts) ==
    IF \/ service.kind # "answer"
       \/ (Len(pcts) > 0 /\ service.description = "short")
       \/ \E i \in 1..Len(pcts) :
              pcts[i] # NaN /\ (pcts[i] < MinPercentage \/ pcts[i] > MaxPercentage)
    THEN [threw |-> TRUE, percentages |-> <<>>, description |-> "none"]
    ELSE [threw |-> FALSE, percentages |-> pcts, description |-> service.description]
CallGeminiAPI(service) ==
    CheckedMilestones(service, Normalize(service.percentages))

\* The number of characters of the longest description of a service answer:
\* "short" is under 20, "long" is 501, the others lie between.
DescriptionLength(description) ==
    IF description = "none" THEN 0
    ELSE IF description = "short" THEN 19
    ELSE IF description = "long" THEN MaxDescriptionLength + 1
    ELSE 40

\* title.length of the title as sent.
TitleLength(title) == title.padding + title.chars

Max(a, b) == IF a > b THEN a ELSE b

\* The number of characters of the longest description of a fallback
\* template: the first description ends in "${title}" between quotes, the
\* others are fixed.
FallbackDescriptionLength(topic, title) ==
    IF topic = "sleep" THEN Max(74 + TitleLength(title), 75)
    ELSE IF topic = "fitness" THEN Max(58 + TitleLength(title), 63)
    ELSE Max(46 + TitleLength(title), 43)
FallbackDescriptionLengthV2(topic, title) ==
    IF topic = "sleep" THEN Max(76 + TitleLength(title), 75)
    ELSE IF topic = "fitness" THEN Max(60 + TitleLength(title), 63)
    ELSE IF topic = "learning" THEN Max(46 + TitleLength(title), 51)
    ELSE IF topic = "career" THEN Max(37 + TitleLength(title), 54)
    ELSE Max(55 + TitleLength(title), 60)

\* create: the milestones after the try/catch around the service call, whose
\* outcome is a: the service's, or the fallback template when the call threw
\* or came back empty.
OrFallback(a, topic, title) ==
    IF a.threw \/ Len(a.percentages) = 0
    THEN [percentages |-> FallbackPlan(topic),
          description |-> FallbackDescriptionLength(topic, title),
          fallback |-> TRUE]
    ELSE [percentages |-> a.percentages,
          description |-> DescriptionLength(a.description),
          fallback |-> FALSE]
Planner(topic, title, service) ==
    OrFallback(CallGeminiAPI(service), topic, title)

\* validateAndFixMilestones: a description of more than 500 characters is
\* cut to its first 497 followed by "..." (the trim takes nothing from the
\* descriptions enumerated, which neither start nor end with a blank).
ValidateAndFixMilestones(description) ==
    IF description > FixLength THEN CutLength + Len("...") ELSE description

\* create, second variant: as the first, but an answer whose descriptions
\* all hold a generic phrase is thrown away too, the templates are five, and
\* validateAndFixMilestones is applied to the result.
OrFallbackV2(a, topic, title) ==
    IF a.threw \/ Len(a.percentages) = 0 \/ a.description = "generic"
    THEN [percentages |-> FallbackPlanV2(topic),
          description |->
             ValidateAndFixMilestones(FallbackDescriptionLengthV2(topic, title)),
          fallback |-> TRUE]
    ELSE [percentages |-> a.percentages,
          description |-> ValidateAndFixMilestones(DescriptionLength(a.description)),
          fallback |-> FALSE]
PlannerV2(topic, title, service) ==
    OrFallbackV2(CallGeminiAPI(service), topic, title)

\* The service behaviours the interleaved requests draw from: a timeout and
\* the two sampled answers.
SampledServices ==
    {ServiceFailure("timeout")} \cup {ServiceAnswer(plan, "ok") : plan \in ExternalPlans}

\* milestoneSchema.description: maxlength 500.
DescriptionSaveable(description) == description <= MaxDescriptionLength

\* create: the milestone-count check before the Goal is built.
MilestoneCountOk(plan) ==
    Len(plan) >= MinMilestones /\ Len(plan) <= MaxMilestones

\* A milestone sub-document as the schema defaults leave it.
NewMilestone(pct) ==
    [percentage |-> pct, isCompleted |-> FALSE, releasedAmount |-> 0, proofUrl |-> ""]

\* new Goal({userId, title: title.trim(), depositAmount, milestones,
\* status: 'active'})
NewGoal(userId, title, deposit, plan) ==
    [userId |-> userId,
     title |-> TitleTrim(title),
     depositAmount |-> deposit,
     status |-> "active",
     completedAt |-> "unset",
     milestones |-> [i \in 1..Len(plan) |-> NewMilestone(plan[i])]]

\* milestone.verificationStatus as read from a stored milestone: the
\* milestone schema declares no such path, so a document read back has none.
StoredVerificationStatus(ms) ==
    IF "verificationStatus" \in DOMAIN ms THEN ms.verificationStatus ELSE "unset"

\* refundAmount = Math.round((depositAmount * (percentage / 100)) * 100) / 100
RefundAmount(deposit, pct) ==
    Round2[JsMul[Num[deposit], JsDiv[Percentage[pct], FromInt[100]]]]

\* goal.milestones.every(m => m.isCompleted)
AllCompleted(ms) == \A i \in 1..Len(ms) : ms[i].isCompleted

\* Sum of releasedAmount over a goal's milestones (the totalRefunded virtual).
TotalRefunded(g) ==
    SumSeq[[i \in 1..Len(g.milestones) |-> Num[g.milestones[i].releasedAmount]]]

(***************************** validators *********************************)

\* UserSchema.walletBalance: min 0, max 1000000.
WalletValid(b) == JsAtLeast[b, JsZero] /\ JsAtMost[b, Num[WalletMax]]

\* The proof URLs a request can carry: none, an http(s) URL, another scheme.
ProofUrls == {"", "https://proof", "ftp://proof"}

\* milestoneSchema.proofUrl validator: !v || /^https?:\/\/.+/.test(v)
ProofUrlValid(v) == v = "" \/ v = "https://proof"

\* validateGoalCreation, on the trimmed title's length and the deposit.
ValidGoalCreation(titleLen, deposit) ==
    /\ ~(titleLen < MinTitleLength)
    /\ ~(deposit = 0 \/ deposit < MinDeposit \/ deposit > MaxDeposit)

\* user.save() sends $set {walletBalance: <the loaded copy's value>}.
WalletWriteInc(stored, loaded, updated) == JsAdd[stored, JsSub[updated, loaded]]
WalletWriteLoaded(stored, loaded, updated) == loaded
WalletWrite(stored, loaded, updated) == updated

(************************* Verification policy *****************************)

\* What the external assessment call can come back with: no API key
\* configured, no usable answer (timeout, non-2xx, empty or unparsable
\* content), or a verdict.
AiNotConfigured ==
    [configured |-> FALSE, available |-> FALSE, verified |-> FALSE, confidence |-> 0]
AiUnavailable ==
    [configured |-> TRUE, available |-> FALSE, verified |-> FALSE, confidence |-> 0]

\* A submit-proof request body, with the external service's behaviour for it.
\* reason / description say whether the field is a non-empty string.
Proof(selfCertify, reason, description, proofUrl, ai) ==
    [selfCertify |-> selfCertify, reason |-> reason, description |-> description,
     proofUrl |-> proofUrl, ai |-> ai]

AiVerdict(v, c) ==
    [configured |-> TRUE, available |-> TRUE, verified |-> v, confidence |-> c]

\* The request bodies the requests draw from: each rejected shape, both
\* sides of the settlement condition, with and without an acceptable URL.
ProofInputs ==
    { Proof(TRUE, TRUE, FALSE, "", AiUnavailable),
      Proof(TRUE, TRUE, FALSE, "ftp://proof", AiUnavailable),
      Proof(TRUE, FALSE, FALSE, "", AiUnavailable),
      Proof(FALSE, FALSE, FALSE, "https://proof", AiUnavailable),
      Proof(FALSE, FALSE, TRUE, "https://proof", AiVerdict(TRUE, 70)),
      Proof(FALSE, FALSE, TRUE, "", AiVerdict(TRUE, 69)),
      Proof(FALSE, FALSE, TRUE, "", AiVerdict(FALSE, 70)),
      Proof(FALSE, FALSE, TRUE, "ftp://proof", AiUnavailable) }

NoProof ==
    [selfCertify |-> FALSE, reason |-> FALSE, description |-> FALSE,
     proofUrl |-> "", ai |-> AiUnavailable]

\* submit-proof: the request-shape checks; TRUE when the body is accepted.
ProofShapeOk(p) ==
    /\ ~(~p.selfCertify /\ ~p.description)
    /\ ~(p.selfCertify /\ ~p.reason)

\* verifyMilestoneWithAI: throws when no API key is configured (the check
\* precedes its try block); otherwise returns the service's verdict, or the
\* fixed degraded result of its catch block.
VerifyMilestoneWithAI(p) ==
    IF ~p.ai.configured
    THEN [threw |-> TRUE, verified |-> FALSE, confidence |-> 0]
    ELSE IF p.ai.available
    THEN [threw |-> FALSE, verified |-> p.ai.verified, confidence |-> p.ai.confidence]
    ELSE [threw |-> FALSE, verified |-> FALSE, confidence |-> 0]

\* submit-proof: verificationResult (the handler's catch supplies the
\* fallback result when verifyMilestoneWithAI throws).
VerificationResult(p) ==
    IF p.selfCertify
    THEN [verified |-> TRUE, confidence |-> SelfCertifyConfidence]
    ELSE LET r == VerifyMilestoneWithAI(p) IN
         IF r.threw THEN [verified |-> FALSE, confidence |-> 0]
         ELSE [verified |-> r.verified, confidence |-> r.confidence]

\* submit-proof: milestone.verificationStatus as the handler sets it.
VerificationStatusNoReview(p) ==
    IF p.selfCertify THEN "self_certified"
    ELSE LET r == VerifyMilestoneWithAI(p) IN
         IF r.threw THEN "pending"
         ELSE IF r.verified /\ r.confidence >= ApproveConfidence THEN "ai_approved"
         ELSE "pending"
VerificationStatus(p) ==
    IF p.selfCertify THEN "self_certified"
    ELSE LET r == VerifyMilestoneWithAI(p) IN
         IF r.threw THEN "pending"
         ELSE IF r.verified /\ r.confidence >= ApproveConfidence THEN "ai_approved"
         ELSE IF r.confidence < ReviewConfidence THEN "manual_review"
         ELSE "pending"

\* submit-proof: whether the handler calls verifyMilestoneWithAI.
CallsAssessment(p) == ~p.selfCertify

\* submit-proof: the condition guarding the settlement branch.
SettlementTriggerAny(p) == VerificationResult(p).verified \/ p.selfCertify
SettlementTrigger(p) ==
    \/ (VerificationResult(p).verified
        /\ VerificationResult(p).confidence >= ApproveConfidence)
    \/ p.selfCertify

(**************************** initial states *******************************)

\* A goal of `plan` whose first k milestones were settled one after the other
\* by self-certified proofs without a URL.
SettledGoal(deposit, plan, k) ==
    [userId |-> UserA,
     title |-> Title(0, 12),
     depositAmount |-> deposit,
     status |-> IF k = Len(plan) THEN "completed" ELSE "active",
     completedAt |-> IF k = Len(plan) THEN "set" ELSE "unset",
     milestones |->
        [i \in 1..Len(plan) |->
            IF i <= k
            THEN [percentage |-> plan[i], isCompleted |-> TRUE,
                  releasedAmount |-> RefundAmount(deposit, plan[i]), proofUrl |-> ""]
            ELSE NewMilestone(plan[i])]]

\* The database when the requests arrive: a newly registered user, or a user
\* who created one goal and settled some of its milestones, request after
\* request.  The goals: a fallback plan with a deposit of 40.00, 1.02 or 1.65,
\* one, two or three of its milestones settled; an external plan totalling
\* 101 with a deposit of 40.00 and one milestone left.
InitDeposits == {4000, 102, 165}
InitSettled == {1, 2, 3}
InitGoals ==
    {SettledGoal(d, FallbackSleep, k) : d \in InitDeposits, k \in InitSettled}
    \cup {SettledGoal(4000, <<2600, 2500, 2500, 2500>>, 3)}

\* The wallet after the first k of the amounts released on milestones ms were
\* credited to it, one settlement after the other.
RECURSIVE Credited(_, _, _)
Credited(balance, ms, k) ==
    IF k = 0 THEN balance
    ELSE JsAdd[Credited(balance, ms, k - 1), Num[ms[k].releasedAmount]]

\* The wallet of a user who registered, created goal g and settled its
\* completed milestones: 100 - depositAmount, then += each released amount.
WalletAfter(g) ==
    Credited(JsSub[Num[StartingBalance], Num[g.depositAmount]],
             g.milestones, Len(g.milestones))

InitWorlds ==
    {[wallet |-> Num[StartingBalance], goals |-> <<>>]} \cup
    {[wallet |-> WalletAfter(g), goals |-> <<g>>] : g \in InitGoals}

NoLocals ==
    [op |-> "", variant |-> 1, userId |-> "", title |-> Title(0, 0), titleLen |-> 0, depositAmount |-> 0, goalId |-> 0, milestoneId |-> 0,
     proof |-> NoProof, userBalance |-> JsZero, refundAmount |-> 0,
     allCompleted |-> FALSE, loadedProofUrl |-> "",
     verification |-> [verified |-> FALSE, confidence |-> 0],
     verificationStatus |-> "", aiCalled |-> FALSE,
     topic |-> "", service |-> NoService, plan |-> <<>>]

Init ==
    /\ \E w \in InitWorlds :
        /\ walletBalance = w.wallet
        /\ goals = w.goals
        /\ wallet0 = w.wallet
    /\ otherWallet = Num[StartingBalance]
    /\ users = KnownAccounts
    /\ pc = [r \in Requests |-> "idle"]
    /\ loc = [r \in Requests |-> NoLocals]
    /\ resp = [r \in Requests |-> ""]
    /\ wrote = [r \in Requests |-> {}]

(******************************* createGoal ********************************)

TitleLengths == {4, 12}
Titles == {Title(0, n) : n \in TitleLengths}
CreateDeposits == {4000, 15000, 1000100}

\* Request r arrives: requests are numbered in their order of arrival.
Arrives(r) == pc[r] = "idle" /\ \A q \in 1..(r - 1) : pc[q] # "idle"

\* The handler returns: the response is sent and the request is over.
RespondNever(r, kind, locals) ==
    /\ UNCHANGED <<pc, resp>>
    /\ loc' = [loc EXCEPT ![r] = locals]
Respond(r, kind, locals) ==
    /\ pc' = [pc EXCEPT ![r] = "done"]
    /\ resp' = [resp EXCEPT ![r] = kind]
    /\ loc' = [loc EXCEPT ![r] = locals]

\* User.findById(userId).walletBalance as stored.
Balance(u) == IF u = UserA THEN walletBalance ELSE otherWallet

\* user.save() of user u's document with walletBalance = value.
SaveBalance(u, value) ==
    IF u = UserA
    THEN walletBalance' = value /\ UNCHANGED otherWallet
    ELSE otherWallet' = value /\ UNCHANGED walletBalance

\* create: user.walletBalance < depositAmount
InsufficientBalanceNever(balance, deposit) == FALSE
InsufficientBalance(balance, deposit) == JsLess[balance, Num[deposit]]

\* POST /create up to the planner call: validateGoalCreation, User.findById,
\* the balance check.
CreateRequest(r, u, title, deposit) ==
    /\ Arrives(r)
    /\ LET titleLen == TrimmedLength(title)
           locals == [NoLocals EXCEPT !.op = "create", !.userId = u,
                                      !.title = title,
                                      !.titleLen = titleLen,
                                      !.depositAmount = deposit,
                                      !.userBalance = Balance(u)]
       IN  IF ~ValidGoalCreation(titleLen, deposit)
           THEN Respond(r, "ValidationError", [locals EXCEPT !.userBalance = JsZero])
           ELSE IF InsufficientBalance(Balance(u), deposit)
           THEN Respond(r, "InsufficientFunds", locals)
           ELSE /\ pc' = [pc EXCEPT ![r] = "create_saveGoal"]
                /\ loc' = [loc EXCEPT ![r] = locals]
                /\ UNCHANGED resp
    /\ UNCHANGED <<walletBalance, otherWallet, goals, wrote, wallet0, users>>

\* Goal validation at save: the schema's types (a Number path does not take
\* NaN) and bounds, and the pre-save hook.
GoalSaveAccepts(g) ==
    /\ g.title.chars >= MinTitleLength /\ g.title.chars <= MaxTitleLength
    /\ g.depositAmount >= 1 /\ g.depositAmount <= 10000000
    /\ \A i \in 1..Len(g.milestones) : g.milestones[i].percentage # NaN
    /\ \A i \in 1..Len(g.milestones) :
          g.milestones[i].percentage >= 0 /\ g.milestones[i].percentage <= 10000
    /\ PreSaveHookAccepts([i \in 1..Len(g.milestones) |-> g.milestones[i].percentage])
    /\ \A i \in 1..Len(g.milestones) : ProofUrlValid(g.milestones[i].proofUrl)

\* POST /create: the planner's result, the count check, new Goal(...).save().
CreateSaveGoal(r, topic, service) ==
    /\ pc[r] = "create_saveGoal"
    /\ \E planned \in {Planner(topic, loc[r].title, service)} :
       LET plan == planned.percentages
           newGoal == NewGoal(loc[r].userId, loc[r].title, loc[r].depositAmount, plan)
           locals == [loc[r] EXCEPT !.topic = topic, !.service = service,
                                    !.plan = plan]
       IN  IF /\ MilestoneCountOk(plan)
              /\ DescriptionSaveable(planned.description)
              /\ GoalSaveAccepts(newGoal)
           THEN /\ goals' = Append(goals, newGoal)
                /\ wrote' = [wrote EXCEPT ![r] = @ \cup {"goal"}]
                /\ pc' = [pc EXCEPT ![r] = "create_saveUser"]
                /\ loc' = [loc EXCEPT ![r] = [locals EXCEPT !.goalId = Len(goals) + 1]]
                /\ UNCHANGED resp
           ELSE /\ Respond(r, "ServerError", locals)
                /\ UNCHANGED <<goals, wrote>>
    /\ UNCHANGED <<walletBalance, otherWallet, wallet0, users>>

\* POST /create: user.walletBalance -= depositAmount; user.save(); respond 201.
CreateSaveUser(r) ==
    /\ pc[r] = "create_saveUser"
    /\ LET updated == JsSub[loc[r].userBalance, Num[loc[r].depositAmount]]
       IN  IF WalletValid(updated)
           THEN /\ SaveBalance(loc[r].userId,
                                WalletWrite(Balance(loc[r].userId),
                                            loc[r].userBalance, updated))
                /\ wrote' = [wrote EXCEPT ![r] = @ \cup {"user"}]
                /\ Respond(r, "Created", [loc[r] EXCEPT !.userBalance = updated])
           ELSE /\ Respond(r, "ServerError", loc[r])
                /\ UNCHANGED <<walletBalance, otherWallet, wrote>>
    /\ UNCHANGED <<goals, wallet0, users>>

(************** second route variant: create a goal ***********************)

\* POST /create of the second variant up to the planner call:
\* validateGoalCreation, User.findById, the balance check.
CreateV2Request(r, u, title, deposit) ==
    /\ Arrives(r)
    /\ LET titleLen == TrimmedLength(title)
           locals == [NoLocals EXCEPT !.op = "create", !.variant = 2,
                                      !.userId = u,
                                      !.title = title,
                                      !.titleLen = titleLen,
                                      !.depositAmount = deposit,
                                      !.userBalance = Balance(u)]
       IN  IF ~ValidGoalCreation(titleLen, deposit)
           THEN Respond(r, "ValidationError", [locals EXCEPT !.userBalance = JsZero])
           ELSE IF InsufficientBalance(Balance(u), deposit)
           THEN Respond(r, "InsufficientFunds", locals)
           ELSE /\ pc' = [pc EXCEPT ![r] = "createV2_saveGoal"]
                /\ loc' = [loc EXCEPT ![r] = locals]
                /\ UNCHANGED resp
    /\ UNCHANGED <<walletBalance, otherWallet, goals, wrote, wallet0, users>>

\* POST /create of the second variant: the planner's result with its
\* descriptions cut to length, the count check, new Goal(...).save().  (The
\* handler answers 503 instead of 500 when the error's message holds "Gemini
\* API", which no save error does unless the title holds that phrase.)
CreateV2SaveGoal(r, topic, service) ==
    /\ pc[r] = "createV2_saveGoal"
    /\ \E planned \in {PlannerV2(topic, loc[r].title, service)} :
       LET plan == planned.percentages
           newGoal == NewGoal(loc[r].userId, loc[r].title, loc[r].depositAmount, plan)
           locals == [loc[r] EXCEPT !.topic = topic, !.service = service,
                                    !.plan = plan]
       IN  IF /\ MilestoneCountOk(plan)
              /\ DescriptionSaveable(planned.description)
              /\ GoalSaveAccepts(newGoal)
           THEN /\ goals' = Append(goals, newGoal)
                /\ wrote' = [wrote EXCEPT ![r] = @ \cup {"goal"}]
                /\ pc' = [pc EXCEPT ![r] = "createV2_saveUser"]
                /\ loc' = [loc EXCEPT ![r] = [locals EXCEPT !.goalId = Len(goals) + 1]]
                /\ UNCHANGED resp
           ELSE /\ Respond(r, "ServerError", locals)
                /\ UNCHANGED <<goals, wrote>>
    /\ UNCHANGED <<walletBalance, otherWallet, wallet0, users>>

\* POST /create of the second variant: user.walletBalance -= depositAmount;
\* user.save(); respond 201.
CreateV2SaveUser(r) ==
    /\ pc[r] = "createV2_saveUser"
    /\ LET updated == JsSub[loc[r].userBalance, Num[loc[r].depositAmount]]
       IN  IF WalletValid(updated)
           THEN /\ SaveBalance(loc[r].userId,
                                WalletWrite(Balance(loc[r].userId),
                                            loc[r].userBalance, updated))
                /\ wrote' = [wrote EXCEPT ![r] = @ \cup {"user"}]
                /\ Respond(r, "Created", [loc[r] EXCEPT !.userBalance = updated])
           ELSE /\ Respond(r, "ServerError", loc[r])
                /\ UNCHANGED <<walletBalance, otherWallet, wrote>>
    /\ UNCHANGED <<goals, wallet0, users>>

(******************************* submitProof *******************************)

\* Goal.findOne({ _id: goalId, userId: userId }) finds a document.
GoalFindOneAnyOwner(gs, g, u) == g \in 1..Len(gs)
GoalFindOne(gs, g, u) == g \in 1..Len(gs) /\ gs[g].userId = u

Percentages(g) == [i \in 1..Len(g.milestones) |-> g.milestones[i].percentage]

\* submit-proof: the checks on the loaded goal, in the handler's order.
\* "" when the request passes them all.
SubmitRejectionNoStatusCheck(gs, g, m, p) ==
    IF g \notin 1..Len(gs) THEN "NotFound"
    ELSE IF m \notin 1..Len(gs[g].milestones) THEN "NotFound"
    ELSE IF gs[g].milestones[m].isCompleted THEN "AlreadyCompleted"
    ELSE IF ~ProofShapeOk(p) THEN "ValidationError"
    ELSE ""
SubmitRejectionStatusLast(gs, g, m, p) ==
    IF g \notin 1..Len(gs) THEN "NotFound"
    ELSE IF m \notin 1..Len(gs[g].milestones) THEN "NotFound"
    ELSE IF gs[g].milestones[m].isCompleted THEN "AlreadyCompleted"
    ELSE IF ~ProofShapeOk(p) THEN "ValidationError"
    ELSE IF gs[g].status # "active" THEN "InvalidGoalState"
    ELSE ""
SubmitRejectionNoCompletedCheck(gs, g, m, p) ==
    IF g \notin 1..Len(gs) THEN "NotFound"
    ELSE IF gs[g].status # "active" THEN "InvalidGoalState"
    ELSE IF m \notin 1..Len(gs[g].milestones) THEN "NotFound"
    ELSE IF ~ProofShapeOk(p) THEN "ValidationError"
    ELSE ""
SubmitRejection(gs, g, m, p) ==
    IF g \notin 1..Len(gs) THEN "NotFound"
    ELSE IF gs[g].status # "active" THEN "InvalidGoalState"
    ELSE IF m \notin 1..Len(gs[g].milestones) THEN "NotFound"
    ELSE IF gs[g].milestones[m].isCompleted THEN "AlreadyCompleted"
    ELSE IF ~ProofShapeOk(p) THEN "ValidationError"
    ELSE ""

\* submit-proof: allCompleted, on the loaded copy with milestone m just marked.
AllCompletedWithStale(ms, m) == \A i \in 1..Len(ms) : ms[i].isCompleted
AllCompletedWith(ms, m) == \A i \in 1..Len(ms) : i = m \/ ms[i].isCompleted

\* PUT submit-proof up to the settlement decision: Goal.findOne, the checks,
\* the assessment (self-certified or external), the settlement condition.
SubmitRequest(r, u, g, m, p) ==
    /\ Arrives(r)
    /\ LET locals == [NoLocals EXCEPT !.op = "submit", !.userId = u,
                                      !.goalId = g, !.milestoneId = m]
           why == IF GoalFindOne(goals, g, u)
                  THEN SubmitRejection(goals, g, m, p) ELSE "NotFound"
       IN  IF why # ""
           THEN Respond(r, why, IF why = "ValidationError"
                                THEN [locals EXCEPT !.proof = p] ELSE locals)
           ELSE /\ loc' = [loc EXCEPT ![r] =
                    [locals EXCEPT
                        !.proof = p,
                        !.verification = VerificationResult(p),
                        !.verificationStatus = VerificationStatus(p),
                        !.aiCalled = CallsAssessment(p),
                        !.refundAmount =
                            RefundAmount(goals[g].depositAmount,
                                         goals[g].milestones[m].percentage),
                        !.allCompleted = AllCompletedWith(goals[g].milestones, m),
                        !.loadedProofUrl = goals[g].milestones[m].proofUrl]]
                /\ pc' = [pc EXCEPT ![r] =
                            IF SettlementTrigger(p) THEN "submit_loadUser"
                                                    ELSE "submit_saveProof"]
                /\ UNCHANGED resp
    /\ UNCHANGED <<walletBalance, otherWallet, goals, wrote, wallet0, users>>

\* submit-proof, settlement branch: User.findById.
SubmitLoadUser(r) ==
    /\ pc[r] = "submit_loadUser"
    /\ loc' = [loc EXCEPT ![r].userBalance = Balance(loc[r].userId)]
    /\ pc' = [pc EXCEPT ![r] = "submit_saveUser"]
    /\ UNCHANGED <<walletBalance, otherWallet, goals, resp, wrote, wallet0, users>>

\* submit-proof, settlement branch: user.walletBalance += refundAmount;
\* user.save().
SubmitSaveUser(r) ==
    /\ pc[r] = "submit_saveUser"
    /\ LET updated == JsAdd[loc[r].userBalance, Num[loc[r].refundAmount]]
       IN  IF WalletValid(updated)
           THEN /\ SaveBalance(loc[r].userId,
                                WalletWrite(Balance(loc[r].userId),
                                            loc[r].userBalance, updated))
                /\ wrote' = [wrote EXCEPT ![r] = @ \cup {"user"}]
                /\ loc' = [loc EXCEPT ![r].userBalance = updated]
                /\ pc' = [pc EXCEPT ![r] = "submit_saveGoal"]
                /\ UNCHANGED resp
           ELSE /\ Respond(r, "ServerError", loc[r])
                /\ UNCHANGED <<walletBalance, otherWallet, wrote>>
    /\ UNCHANGED <<goals, wallet0, users>>

\* The proof fields goal.save() sends for milestone m: proofUrl when the
\* handler's assignment changed it on the loaded copy.
WithProofOverwrite(ms, l) ==
    [ms EXCEPT !.proofUrl = l.proof.proofUrl, !.isCompleted = FALSE,
               !.releasedAmount = 0]
WithProofCompletes(ms, l) ==
    [ms EXCEPT !.proofUrl = l.proof.proofUrl, !.isCompleted = TRUE]
WithProof(ms, l) ==
    IF l.proof.proofUrl # l.loadedProofUrl
    THEN [ms EXCEPT !.proofUrl = l.proof.proofUrl]
    ELSE ms

\* What goal.save() sends in the settlement branch: the milestone's modified
\* paths and, when the loaded copy was all completed, the goal's status.
SettledDocumentDeducts(g, l) ==
    [g EXCEPT
        !.milestones[l.milestoneId] =
            [WithProof(@, l) EXCEPT !.isCompleted = TRUE,
                                    !.releasedAmount = l.refundAmount],
        !.depositAmount = @ - l.refundAmount,
        !.status = IF l.allCompleted THEN "completed" ELSE @,
        !.completedAt = IF l.allCompleted THEN "set" ELSE @]
SettledDocument(g, l) ==
    [g EXCEPT
        !.milestones[l.milestoneId] =
            [WithProof(@, l) EXCEPT !.isCompleted = TRUE,
                                    !.releasedAmount = l.refundAmount],
        !.status = IF l.allCompleted THEN "completed" ELSE @,
        !.completedAt = IF l.allCompleted THEN "set" ELSE @]

\* goal.save() validation for a loaded goal: the modified proofUrl and the
\* pre-save hook.
LoadedGoalSaveAccepts(g, l) ==
    /\ l.proof.proofUrl # l.loadedProofUrl => ProofUrlValid(l.proof.proofUrl)
    /\ PreSaveHookAccepts(Percentages(g))

\* submit-proof, settlement branch: goal.save(); respond.
SubmitSaveGoal(r) ==
    /\ pc[r] = "submit_saveGoal"
    /\ IF LoadedGoalSaveAccepts(goals[loc[r].goalId], loc[r])
       THEN /\ goals' = [goals EXCEPT ![loc[r].goalId] = SettledDocument(@, loc[r])]
            /\ wrote' = [wrote EXCEPT ![r] = @ \cup {"goal"}]
            /\ Respond(r, "Settled", loc[r])
       ELSE /\ Respond(r, "ServerError", loc[r])
            /\ UNCHANGED <<goals, wrote>>
    /\ UNCHANGED <<walletBalance, otherWallet, wallet0, users>>

\* submit-proof, review branch: goal.save(); respond.
SubmitSaveProof(r) ==
    /\ pc[r] = "submit_saveProof"
    /\ IF LoadedGoalSaveAccepts(goals[loc[r].goalId], loc[r])
       THEN /\ goals' = [goals EXCEPT
                            ![loc[r].goalId].milestones[loc[r].milestoneId] =
                                WithProof(@, loc[r])]
            /\ wrote' = [wrote EXCEPT ![r] = @ \cup {"goal"}]
            /\ Respond(r, "PendingReview", loc[r])
       ELSE /\ Respond(r, "ServerError", loc[r])
            /\ UNCHANGED <<goals, wrote>>
    /\ UNCHANGED <<walletBalance, otherWallet, wallet0, users>>

(****************************** wallet endpoint ****************************)

\* GET /wallet/balance, stats.totalDeposited and stats.totalRefunded: the
\* sums over Goal.find({userId}) of depositAmount and of the milestones'
\* releasedAmount.
GoalFind(gs, u) == SelectSeq(gs, LAMBDA g : g.userId = u)
TotalDepositedOf(gs, u) ==
    LET found == GoalFind(gs, u)
    IN  SumSeq[[i \in 1..Len(found) |-> Num[found[i].depositAmount]]]
TotalRefundedOf(gs, u) ==
    LET found == GoalFind(gs, u)
    IN  SumSeq[[i \in 1..Len(found) |-> TotalRefunded(found[i])]]

(************** second route variant: complete a milestone *****************)

\* complete: the checks after Goal.findOne and before User.findById.
CompleteRejection(gs, g, m) ==
    IF gs[g].status # "active" THEN "InvalidGoalState"
    ELSE IF m \notin 1..Len(gs[g].milestones) THEN "NotFound"
    ELSE IF gs[g].milestones[m].isCompleted THEN "AlreadyCompleted"
    ELSE ""

\* PUT complete up to User.findById: Goal.findOne and the checks. The body
\* carries no proof and the handler asks for no assessment.
CompleteRequest(r, u, g, m) ==
    /\ Arrives(r)
    /\ LET locals == [NoLocals EXCEPT !.op = "complete", !.userId = u,
                                      !.goalId = g, !.milestoneId = m]
           why == IF GoalFindOne(goals, g, u)
                  THEN CompleteRejection(goals, g, m) ELSE "NotFound"
       IN  IF why # ""
           THEN Respond(r, why, locals)
           ELSE /\ loc' = [loc EXCEPT ![r] =
                    [locals EXCEPT
                        !.refundAmount =
                            RefundAmount(goals[g].depositAmount,
                                         goals[g].milestones[m].percentage),
                        !.allCompleted = AllCompletedWith(goals[g].milestones, m)]]
                /\ pc' = [pc EXCEPT ![r] = "complete_loadUser"]
                /\ UNCHANGED resp
    /\ UNCHANGED <<walletBalance, otherWallet, goals, wrote, wallet0, users>>

\* complete: User.findById.
CompleteLoadUser(r) ==
    /\ pc[r] = "complete_loadUser"
    /\ loc' = [loc EXCEPT ![r].userBalance = Balance(loc[r].userId)]
    /\ pc' = [pc EXCEPT ![r] = "complete_saveUser"]
    /\ UNCHANGED <<walletBalance, otherWallet, goals, resp, wrote, wallet0, users>>

\* complete: user.walletBalance += refundAmount; user.save().
CompleteSaveUser(r) ==
    /\ pc[r] = "complete_saveUser"
    /\ LET updated == JsAdd[loc[r].userBalance, Num[loc[r].refundAmount]]
       IN  IF WalletValid(updated)
           THEN /\ SaveBalance(loc[r].userId,
                                WalletWrite(Balance(loc[r].userId),
                                            loc[r].userBalance, updated))
                /\ wrote' = [wrote EXCEPT ![r] = @ \cup {"user"}]
                /\ loc' = [loc EXCEPT ![r].userBalance = updated]
                /\ pc' = [pc EXCEPT ![r] = "complete_saveGoal"]
                /\ UNCHANGED resp
           ELSE /\ Respond(r, "ServerError", loc[r])
                /\ UNCHANGED <<walletBalance, otherWallet, wrote>>
    /\ UNCHANGED <<goals, wallet0, users>>

\* What goal.save() sends in complete: the milestone's isCompleted and
\* releasedAmount and, when the loaded copy was all completed, the status.
CompletedDocument(g, l) ==
    [g EXCEPT
        !.milestones[l.milestoneId] =
            [@ EXCEPT !.isCompleted = TRUE, !.releasedAmount = l.refundAmount],
        !.status = IF l.allCompleted THEN "completed" ELSE @,
        !.completedAt = IF l.allCompleted THEN "set" ELSE @]

\* complete: goal.save(); respond.
CompleteSaveGoal(r) ==
    /\ pc[r] = "complete_saveGoal"
    /\ IF PreSaveHookAccepts(Percentages(goals[loc[r].goalId]))
       THEN /\ goals' = [goals EXCEPT ![loc[r].goalId] = CompletedDocument(@, loc[r])]
            /\ wrote' = [wrote EXCEPT ![r] = @ \cup {"goal"}]
            /\ Respond(r, "Completed", loc[r])
       ELSE /\ Respond(r, "ServerError", loc[r])
            /\ UNCHANGED <<goals, wrote>>
    /\ UNCHANGED <<walletBalance, otherWallet, wallet0, users>>

(***************************** specification *******************************)

\* The milestone ids a request can name for goal id g: the goal's own and
\* one that does not exist.
MilestoneIds(g) ==
    IF g \in 1..Len(goals) THEN 1..(Len(goals[g].milestones) + 1) ELSE {1}

Next ==
    \E r \in Requests :
        \/ \E t \in Titles, d \in CreateDeposits : CreateRequest(r, UserA, t, d)
        \/ \E s \in SampledServices : CreateSaveGoal(r, "other", s)
        \/ CreateSaveUser(r)
        \/ \E g \in 1..(Len(goals) + 1) : \E m \in MilestoneIds(g), p \in ProofInputs :
              SubmitRequest(r, UserA, g, m, p)
        \/ SubmitLoadUser(r)
        \/ SubmitSaveUser(r)
        \/ SubmitSaveGoal(r)
        \/ SubmitSaveProof(r)

Spec == Init /\ [][Next]_vars

(******************* goals closed by an administrator **********************)

\* goalSchema.status: the enum's values, and those that end a goal.
GoalStatuses == {"active", "completed", "failed", "abandoned"}
TerminalStatuses == GoalStatuses \ {"active"}

\* A stored goal whose status an administrator set.
WithStatus(g, status) == [g EXCEPT !.status = status]

\* The database when the requests arrive, when it may also hold a goal that
\* is completed, or that was marked failed or abandoned with milestones
\* outstanding.
AdminWorlds ==
    InitWorlds \cup
    {[wallet |-> WalletAfter(SettledGoal(4000, FallbackSleep, k)),
      goals |-> <<WithStatus(SettledGoal(4000, FallbackSleep, k), st)>>] :
        k \in {3}, st \in {"failed", "abandoned"}}

InitAdmin ==
    /\ \E w \in AdminWorlds :
        /\ walletBalance = w.wallet
        /\ goals = w.goals
        /\ wallet0 = w.wallet
    /\ otherWallet = Num[StartingBalance]
    /\ users = KnownAccounts
    /\ pc = [r \in Requests |-> "idle"]
    /\ loc = [r \in Requests |-> NoLocals]
    /\ resp = [r \in Requests |-> ""]
    /\ wrote = [r \in Requests |-> {}]

SpecAdmin == InitAdmin /\ [][Next]_vars

(************************ one request at a time ****************************)

\* The percentages enumerated for the external proposal service's answers:
\* one under 5, and 21, 25 and 26, which make totals of 96 and of 101.
CandidatePercentages == {400, 2100, 2500, 2600}
CandidatePlans ==
    UNION {[1..n -> CandidatePercentages] : n \in 2..MaxPlanLength}

\* The behaviours of the external proposal service that are singled out: the
\* failures, no milestones, a list of nine, a list of percentages 0, and
\* lists with a description that is too short, too long, or holds a generic
\* phrase such as "plan".
SpecialServices ==
    ServiceFailures
    \cup {ServiceAnswer(<<>>, "ok")}
    \cup {ServiceAnswer([i \in 1..9 |-> 1100], "ok")}
    \cup {ServiceAnswer(<<6000, 2000, 2000>>, "ok")}
    \cup {ServiceAnswer(<<0, 0, 0, 0>>, "ok")}
    \cup {ServiceAnswer(<<2500, 2500, 2500, 2500>>, d) :
                d \in {"short", "long", "generic"}}

\* The answers enumerated: each candidate list, well described.
CandidateServices == {ServiceAnswer(plan, "ok") : plan \in CandidatePlans}

\* Every external assessment outcome: no key, no usable answer, and each
\* verdict.
AllAssessments ==
    {AiNotConfigured, AiUnavailable}
    \cup {AiVerdict(v, c) : v \in BOOLEAN, c \in 0..MaxConfidence}

\* The request bodies one request draws from: the sampled ones, and a
\* described proof with each assessment outcome.
AllProofs ==
    ProofInputs \cup {Proof(FALSE, FALSE, TRUE, "", ai) : ai \in AllAssessments}

\* The database when the request arrives: a newly registered user, or a user
\* with one goal of which none to all of the milestones are settled, or with
\* one goal an administrator marked failed or abandoned, or with a new goal
\* whose deposit of 8.21 left a wallet of 100 - 8.21.
SoloGoals ==
    {SettledGoal(d, FallbackSleep, k) : d \in InitDeposits, k \in 0..4}
    \cup {SettledGoal(821, FallbackSleep, 0)}
    \cup {WithStatus(SettledGoal(4000, FallbackSleep, k), st) :
                k \in {0, 3}, st \in {"failed", "abandoned"}}
SoloWorlds ==
    {[wallet |-> Num[StartingBalance], goals |-> <<>>]} \cup
    {[wallet |-> WalletAfter(g), goals |-> <<g>>] : g \in SoloGoals}

InitSolo ==
    /\ \E w \in SoloWorlds :
        /\ walletBalance = w.wallet
        /\ goals = w.goals
        /\ wallet0 = w.wallet
    /\ otherWallet = Num[StartingBalance]
    /\ users = KnownAccounts
    /\ pc = [r \in Requests |-> "idle"]
    /\ loc = [r \in Requests |-> NoLocals]
    /\ resp = [r \in Requests |-> ""]
    /\ wrote = [r \in Requests |-> {}]

\* One request, handled from its arrival to its response.  A creation meets
\* every enumerated behaviour of the proposal service: the ones singled out
\* with a title of each topic, the candidate lists with a title of none.  The
\* second variant's handler, whose callGeminiAPI is the first's, meets the
\* ones singled out and the two sampled answers.
NextSolo ==
    \E r \in 1..1 :
        \/ \E t \in Titles, d \in CreateDeposits : CreateRequest(r, UserA, t, d)
        \/ \E topic \in Topics, s \in SpecialServices : CreateSaveGoal(r, topic, s)
        \/ \E s \in CandidateServices : CreateSaveGoal(r, "other", s)
        \/ CreateSaveUser(r)
        \/ \E t \in Titles, d \in CreateDeposits : CreateV2Request(r, UserA, t, d)
        \/ \E topic \in Topics, s \in SpecialServices \cup SampledServices :
              CreateV2SaveGoal(r, topic, s)
        \/ CreateV2SaveUser(r)
        \/ \E g \in 1..(Len(goals) + 1) : \E m \in MilestoneIds(g), p \in AllProofs :
              SubmitRequest(r, UserA, g, m, p)
        \/ SubmitLoadUser(r)
        \/ SubmitSaveUser(r)
        \/ SubmitSaveGoal(r)
        \/ SubmitSaveProof(r)

SpecSolo == InitSolo /\ [][NextSolo]_vars

(************************ one creation, any body ***************************)

\* The titles a creation is sent with: none or a blank one, titles of 4 and
\* of 5 characters with and without blanks around them, one of 12, and long
\* ones: 454 and 455 characters (with which the fallback's first description
\* comes to 500 and 501), 500 and 501 (the longest a goal may have, and one
\* more).
CreateTitles ==
    Titles \cup {Title(0, 0), Title(3, 0), Title(3, 4), Title(0, 5), Title(2, 5)}
           \cup {Title(0, 454), Title(0, 455), Title(0, 500), Title(0, 501)}

\* The deposits a creation is sent with: none or 0, 0.99, 1, 40, 91.79 (what
\* 100 - 8.21 comes to on paper), 150, 10000 and 10001.
WideDeposits == CreateDeposits \cup {0, 99, MinDeposit, 9179, MaxDeposit}

\* One goal creation, handled from its arrival to its response, while the
\* proposal service times out.
NextCreate ==
    \E r \in 1..1 :
        \/ \E t \in CreateTitles, d \in WideDeposits : CreateRequest(r, UserA, t, d)
        \/ \E s \in {ServiceFailure("timeout")} : CreateSaveGoal(r, "other", s)
        \/ CreateSaveUser(r)
        \/ \E t \in CreateTitles, d \in WideDeposits : CreateV2Request(r, UserA, t, d)
        \/ \E s \in {ServiceFailure("timeout")} : CreateV2SaveGoal(r, "other", s)
        \/ CreateV2SaveUser(r)

SpecCreate == InitSolo /\ [][NextCreate]_vars

(*********************** two users, every route ***************************)

\* A stored goal as user u's.
OwnedBy(g, u) == [g EXCEPT !.userId = u]

\* The database when the requests arrive: the first user has a goal with
\* two milestones outstanding and the second user a goal with one.
RoutesWorlds ==
    {[wallet |-> WalletAfter(SettledGoal(4000, FallbackSleep, k)),
      other |-> WalletAfter(SettledGoal(4000, FallbackSleep, 3)),
      goals |-> <<SettledGoal(4000, FallbackSleep, k),
                  OwnedBy(SettledGoal(4000, FallbackSleep, 3), UserB)>>] :
        k \in {2}}

InitRoutes ==
    /\ \E w \in RoutesWorlds :
        /\ walletBalance = w.wallet
        /\ otherWallet = w.other
        /\ users = KnownAccounts
        /\ goals = w.goals
        /\ wallet0 = w.wallet
    /\ pc = [r \in Requests |-> "idle"]
    /\ loc = [r \in Requests |-> NoLocals]
    /\ resp = [r \in Requests |-> ""]
    /\ wrote = [r \in Requests |-> {}]

\* The request bodies the two users send: a self-certification with its
\* reason, and a described proof whose assessment is unavailable.
RoutesProofs ==
    { Proof(TRUE, TRUE, FALSE, "", AiUnavailable),
      Proof(FALSE, FALSE, TRUE, "https://proof", AiUnavailable) }

\* The milestone ids the two users name: the goal's last one, and the one
\* before it when it is outstanding.
RoutesMilestoneIds(g) ==
    {m \in 1..Len(goals[g].milestones) :
        m = Len(goals[g].milestones) \/ ~goals[g].milestones[m].isCompleted}

\* A step of request r.
Continue(r) ==
    \/ \E s \in {ServiceFailure("timeout")} : CreateSaveGoal(r, "other", s)
    \/ CreateSaveUser(r)
    \/ \E s \in {ServiceFailure("timeout")} : CreateV2SaveGoal(r, "other", s)
    \/ CreateV2SaveUser(r)
    \/ SubmitLoadUser(r)
    \/ SubmitSaveUser(r)
    \/ SubmitSaveGoal(r)
    \/ SubmitSaveProof(r)
    \/ CompleteLoadUser(r)
    \/ CompleteSaveUser(r)
    \/ CompleteSaveGoal(r)

\* The requests of both users on both variants' routes, interleaved.
NextRoutes ==
    \E r \in Requests :
        \/ \E u \in Users : CreateRequest(r, u, Title(0, 12), 4000)
        \/ \E u \in Users : CreateV2Request(r, u, Title(0, 12), 4000)
        \/ \E u \in Users, g \in 1..Len(goals) :
              \E m \in RoutesMilestoneIds(g), p \in RoutesProofs :
                 SubmitRequest(r, u, g, m, p)
        \/ \E u \in Users, g \in 1..Len(goals) :
              \E m \in RoutesMilestoneIds(g) : CompleteRequest(r, u, g, m)
        \/ Continue(r)

SpecRoutes == InitRoutes /\ [][NextRoutes]_vars

\* Each request's handler keeps running: every await in it settles (the
\* external calls are bounded by their timeout).
FairRoutes == SpecRoutes /\ \A r \in Requests : WF_vars(Continue(r))

(**************************** register, login ***************************)

AuthLocals ==
    [op |-> "", name |-> Title(0, 0), email |-> Email("", FALSE, "missing"),
     password |-> Password(<<>>), user |-> {}]

\* validateRegistration
ValidRegistration(name, email, password) ==
    /\ TrimmedLength(name) >= MinNameLength
    /\ email.form \notin {"missing", "noAt"}
    /\ StringLength(password) >= MinPasswordLength

\* validateLogin
ValidLogin(email, password) == email.form # "missing" /\ StringLength(password) > 0

\* POST /register up to the hashing: validateRegistration, User.findOne.
RegisterRequest(r, name, email, password) ==
    /\ Arrives(r)
    /\ LET locals == [AuthLocals EXCEPT !.op = "register", !.name = name,
                                        !.email = email, !.password = password]
       IN  IF ~ValidRegistration(name, email, password)
           THEN Respond(r, "ValidationError", locals)
           ELSE IF UserFindOne(users, ToLowerCase(email)) # {}
           THEN Respond(r, "AccountExists", locals)
           ELSE /\ pc' = [pc EXCEPT ![r] = "register_save"]
                /\ loc' = [loc EXCEPT ![r] = locals]
                /\ UNCHANGED resp
    /\ UNCHANGED <<walletBalance, otherWallet, goals, wrote, wallet0, users>>

\* POST /register: bcrypt.hash(password, 12), new User(...).save() with its
\* validators, its pre-save hook and the unique index on email; respond 201.
RegisterSave(r) ==
    /\ pc[r] = "register_save"
    /\ LET doc == [name |-> TitleTrim(loc[r].name),
                   email |-> ToLowerCase(loc[r].email),
                   passwordHash |-> BcryptHash(loc[r].password)]
           saved == UserPreSave(doc, TRUE)
       IN  IF UserSaveAccepts(doc) /\ UserFindOne(users, doc.email) = {}
           THEN /\ users' = users \cup {saved}
                /\ wrote' = [wrote EXCEPT ![r] = @ \cup {"user"}]
                /\ Respond(r, "Created", [loc[r] EXCEPT !.user = {saved}])
           ELSE /\ Respond(r, "ServerError", loc[r])
                /\ UNCHANGED <<users, wrote>>
    /\ UNCHANGED <<walletBalance, otherWallet, goals, wallet0>>

\* POST /login up to the comparison: validateLogin, User.findOne.
LoginRequest(r, email, password) ==
    /\ Arrives(r)
    /\ LET locals == [AuthLocals EXCEPT !.op = "login", !.email = email,
                                        !.password = password]
           found == UserFindOne(users, ToLowerCase(email))
       IN  IF ~ValidLogin(email, password)
           THEN Respond(r, "ValidationError", locals)
           ELSE IF found = {}
           THEN Respond(r, "InvalidCredentials", locals)
           ELSE /\ pc' = [pc EXCEPT ![r] = "login_compare"]
                /\ loc' = [loc EXCEPT ![r] = [locals EXCEPT !.user = found]]
                /\ UNCHANGED resp
    /\ UNCHANGED <<walletBalance, otherWallet, goals, wrote, wallet0, users>>

\* POST /login: bcrypt.compare(password, user.passwordHash); respond.
LoginCompare(r) ==
    /\ pc[r] = "login_compare"
    /\ IF \E u \in loc[r].user : BcryptCompare(loc[r].password, u.passwordHash)
       THEN Respond(r, "LoggedIn", loc[r])
       ELSE Respond(r, "InvalidCredentials", loc[r])
    /\ UNCHANGED <<walletBalance, otherWallet, goals, wrote, wallet0, users>>

\* The bodies sent: names of one, three, 100 and 101 characters; an email in
\* small letters and in capitals, one with no '@', one the schema refuses
\* and none; the passwords "first123" and "second12", "short", five times
\* the two bytes of an accented letter, none, and two of 73 letters that
\* differ in the last.
AuthNames == {Title(0, 1), Title(0, 3), Title(0, NameMaxLength), Title(0, NameMaxLength + 1)}
AuthEmails ==
    {Email("cat", FALSE, "valid"), Email("cat", TRUE, "valid"),
     Email("cat", FALSE, "noAt"), Email("cat", FALSE, "malformed"),
     Email("", FALSE, "missing")}
AuthPasswords ==
    {FirstPassword,
     Password(<<115, 101, 99, 111, 110, 100, 49, 50>>),
     Password(<<115, 104, 111, 114, 116>>),
     Password([i \in 1..10 |-> IF i % 2 = 1 THEN 195 ELSE 169]),
     Password(<<>>),
     Password([i \in 1..BcryptBytes + 1 |-> IF i > BcryptBytes THEN 88 ELSE 97]),
     Password([i \in 1..BcryptBytes + 1 |-> IF i > BcryptBytes THEN 89 ELSE 97])}

InitAuth ==
    /\ walletBalance = Num[StartingBalance]
    /\ otherWallet = Num[StartingBalance]
    /\ wallet0 = Num[StartingBalance]
    /\ goals = <<>>
    /\ users \in {{}, KnownAccounts}
    /\ pc = [r \in Requests |-> "idle"]
    /\ loc = [r \in Requests |-> AuthLocals]
    /\ resp = [r \in Requests |-> ""]
    /\ wrote = [r \in Requests |-> {}]

\* Registrations and logins, interleaved.
NextAuth ==
    \E r \in Requests :
        \/ \E n \in AuthNames, e \in AuthEmails, p \in AuthPasswords :
              RegisterRequest(r, n, e, p)
        \/ RegisterSave(r)
        \/ \E e \in AuthEmails, p \in AuthPasswords : LoginRequest(r, e, p)
        \/ LoginCompare(r)

SpecAuth == InitAuth /\ [][NextAuth]_vars

(***************************** model methods ******************************)

\* goalSchema.methods.canBeCompleted
CanBeCompletedAnyStatus(g) == AllCompleted(g.milestones)
CanBeCompleted(g) == g.status = "active" /\ AllCompleted(g.milestones)

\* goalSchema.methods.completeGoal: the document after the call and the
\* value returned ("now" is the call's new Date()).
CompleteGoal(g) ==
    IF CanBeCompleted(g)
    THEN [goal |-> [g EXCEPT !.status = "completed", !.completedAt = "now"],
          returned |-> TRUE]
    ELSE [goal |-> g, returned |-> FALSE]

\* UserSchema.methods.updateWalletBalance up to its save: the document's
\* walletBalance after the call and the error thrown ("" when none).
UpdateWalletBalanceUnchecked(balance, amount, operation) ==
    IF operation = "add"
    THEN [walletBalance |-> JsAdd[balance, Num[amount]], threw |-> ""]
    ELSE IF operation = "subtract"
    THEN [walletBalance |-> JsSub[balance, Num[amount]], threw |-> ""]
    ELSE [walletBalance |-> balance, threw |-> "Invalid operation"]
UpdateWalletBalance(balance, amount, operation) ==
    IF operation = "add"
    THEN [walletBalance |-> JsAdd[balance, Num[amount]], threw |-> ""]
    ELSE IF operation = "subtract"
    THEN IF JsLess[balance, Num[amount]]
         THEN [walletBalance |-> balance, threw |-> "Insufficient wallet balance"]
         ELSE [walletBalance |-> JsSub[balance, Num[amount]], threw |-> ""]
    ELSE [walletBalance |-> balance, threw |-> "Invalid operation"]

MethodLocals ==
    [op |-> "", userId |-> UserA, amount |-> 0, operation |-> "",
     loadedBalance |-> JsZero, userBalance |-> JsZero, threw |-> "",
     goalId |-> 0, goal |-> NewGoal(UserA, Title(0, 0), 0, <<>>), returned |-> FALSE]

\* A caller loads goal g and calls completeGoal() on it (nothing is saved).
CompleteGoalCall(r, g) ==
    /\ Arrives(r)
    /\ g \in 1..Len(goals)
    /\ LET result == CompleteGoal(goals[g])
       IN  Respond(r, IF result.returned THEN "true" ELSE "false",
                   [MethodLocals EXCEPT !.op = "completeGoal", !.goalId = g,
                                        !.goal = result.goal,
                                        !.returned = result.returned])
    /\ UNCHANGED <<walletBalance, otherWallet, goals, wrote, wallet0, users>>

\* A caller loads the user and calls updateWalletBalance(amount, operation):
\* the synchronous part, which throws or leaves this.save() pending.
UpdateWalletBalanceCall(r, amount, operation) ==
    /\ Arrives(r)
    /\ LET result == UpdateWalletBalance(Balance(UserA), amount, operation)
           locals == [MethodLocals EXCEPT !.op = "updateWalletBalance",
                                          !.amount = amount,
                                          !.operation = operation,
                                          !.loadedBalance = Balance(UserA),
                                          !.userBalance = result.walletBalance,
                                          !.threw = result.threw]
       IN  IF result.threw # ""
           THEN Respond(r, "Threw", locals)
           ELSE /\ pc' = [pc EXCEPT ![r] = "method_save"]
                /\ loc' = [loc EXCEPT ![r] = locals]
                /\ UNCHANGED resp
    /\ UNCHANGED <<walletBalance, otherWallet, goals, wrote, wallet0, users>>

\* updateWalletBalance: this.save() with the walletBalance validators.
UpdateWalletBalanceSave(r) ==
    /\ pc[r] = "method_save"
    /\ IF WalletValid(loc[r].userBalance)
       THEN /\ SaveBalance(UserA, WalletWrite(Balance(UserA), loc[r].loadedBalance,
                                              loc[r].userBalance))
            /\ wrote' = [wrote EXCEPT ![r] = @ \cup {"user"}]
            /\ Respond(r, "Saved", loc[r])
       ELSE /\ Respond(r, "ValidationError", loc[r])
            /\ UNCHANGED <<walletBalance, otherWallet, wrote>>
    /\ UNCHANGED <<goals, wallet0, users>>

\* The documents the methods are called on: a wallet of 0, 50, 100 or the
\* schema's maximum; a goal with none to all of its milestones settled, in
\* every status, and a goal with no milestones.
MethodBalances == {0, 5000, StartingBalance, WalletMax}
MethodGoals ==
    SoloGoals
    \cup {WithStatus(SettledGoal(4000, FallbackSleep, k), st) :
             k \in {2, 4}, st \in {"active", "completed", "failed"}}
    \cup {WithStatus(NewGoal(UserA, Title(0, 12), 4000, <<>>), st) :
             st \in {"active", "abandoned"}}
MethodAmounts == {-5000, 0, 5000, StartingBalance, WalletMax}
MethodOperations == {"add", "subtract", "set"}

InitMethods ==
    /\ walletBalance \in {Num[b] : b \in MethodBalances}
    /\ wallet0 = walletBalance
    /\ otherWallet = Num[StartingBalance]
    /\ users = KnownAccounts
    /\ \E g \in MethodGoals : goals = <<g>>
    /\ pc = [r \in Requests |-> "idle"]
    /\ loc = [r \in Requests |-> MethodLocals]
    /\ resp = [r \in Requests |-> ""]
    /\ wrote = [r \in Requests |-> {}]

\* One call of either method, from the call to its outcome.
NextMethods ==
    \E r \in 1..1 :
        \/ \E g \in 1..1 : CompleteGoalCall(r, g)
        \/ \E a \in MethodAmounts, o \in MethodOperations :
              UpdateWalletBalanceCall(r, a, o)
        \/ UpdateWalletBalanceSave(r)

SpecMethods == InitMethods /\ [][NextMethods]_vars

AllDone == \A r \in Requests : pc[r] = "done"

(******************************* properties ********************************)

IsSubmit(r) == loc[r].op = "submit"
IsCreate(r) == loc[r].op = "create"
Target(r) == goals[loc[r].goalId].milestones[loc[r].milestoneId]

\* The amount x to the nearest hundredth, in hundredths (the amount as it is
\* displayed with two decimals).
Cents[x \in Doubles] == ToInt[MathRound[[x EXCEPT !.m = NMulSmall[@, 100]]]]

Abs(x) == IF x < 0 THEN -x ELSE x

\* The total of amounts or percentages written in hundredths.
RECURSIVE Total(_)
Total(ks) == IF ks = <<>> THEN 0 ELSE Head(ks) + Total(Tail(ks))

\* The amounts released on goal g's milestones, in hundredths.
ReleasedAmounts(g) == [i \in 1..Len(g.milestones) |-> g.milestones[i].releasedAmount]

\* What request r's saved wallet write added to the balance it had loaded.
WalletDelta(r) ==
    IF "user" \notin wrote[r] THEN 0
    ELSE IF IsSubmit(r) THEN loc[r].refundAmount
    ELSE 0 - loc[r].depositAmount

RECURSIVE SumOver(_, _)
SumOver(f(_), S) ==
    IF S = {} THEN 0
    ELSE LET x == CHOOSE y \in S : TRUE IN f(x) + SumOver(f, S \ {x})

\* C1: for every goal, the released amounts total at most the deposit, and
\* they total exactly the deposit exactly when the goal's status is completed.
C1_Conservation ==
    \A g \in 1..Len(goals) :
        /\ Total(ReleasedAmounts(goals[g])) <= goals[g].depositAmount
        /\ (Total(ReleasedAmounts(goals[g])) = goals[g].depositAmount
                <=> goals[g].status = "completed")

\* C2: of the proof submissions for one milestone of one goal, at most one
\* is answered as a successful settlement (each such answer follows a credit
\* of the milestone's released amount to the wallet).
C2_SettlementMutualExclusion ==
    \A r1, r2 \in Requests :
        (/\ r1 # r2
         /\ IsSubmit(r1) /\ IsSubmit(r2)
         /\ loc[r1].goalId = loc[r2].goalId
         /\ loc[r1].milestoneId = loc[r2].milestoneId)
        => ~(resp[r1] = "Settled" /\ resp[r2] = "Settled")

\* A submit-proof request r arrives for a milestone that is stored completed.
RetryArrives(r) ==
    /\ pc[r] = "idle" /\ pc'[r] # "idle"
    /\ loc'[r].op = "submit"
    /\ loc'[r].goalId \in 1..Len(goals)
    /\ loc'[r].milestoneId \in 1..Len(goals[loc'[r].goalId].milestones)
    /\ goals[loc'[r].goalId].milestones[loc'[r].milestoneId].isCompleted

\* C3 as claimed: a proof submitted for a milestone that is already settled
\* is answered AlreadyCompleted and changes neither the wallet nor any goal,
\* also when that milestone's settlement completed the goal.
C3_RetryAlreadyCompleted ==
    [][\A r \in Requests :
          RetryArrives(r) =>
            /\ pc'[r] = "done"
            /\ resp'[r] = "AlreadyCompleted"
            /\ walletBalance' = walletBalance
            /\ goals' = goals]_vars

\* C3 as amended: a proof submitted for a milestone that is already settled
\* is rejected at once, with AlreadyCompleted while the goal is still active
\* and with InvalidGoalState once the goal is completed, and changes neither
\* the wallet nor any goal.
C3_RetryRejected ==
    [][\A r \in Requests :
          RetryArrives(r) =>
            /\ pc'[r] = "done"
            /\ resp'[r] = IF goals[loc'[r].goalId].status = "active"
                          THEN "AlreadyCompleted" ELSE "InvalidGoalState"
            /\ walletBalance' = walletBalance
            /\ goals' = goals]_vars

\* A request settled the last milestone of a goal, which completed the goal,
\* and a later request for the same milestone was turned away.
C3_Witness ==
    \E r1, r2 \in Requests :
        /\ r1 # r2
        /\ IsSubmit(r1) /\ resp[r1] = "Settled" /\ loc[r1].allCompleted
        /\ IsSubmit(r2) /\ resp[r2] = "InvalidGoalState"
        /\ loc[r2].goalId = loc[r1].goalId
        /\ loc[r2].milestoneId = loc[r1].milestoneId
        /\ goals[loc[r1].goalId].status = "completed"
        /\ Target(r1).releasedAmount = loc[r1].refundAmount

\* C4: a proof submission that ends in an error has persisted nothing:
\* neither a wallet write nor a goal write.
C4_SettlementAllOrNothing ==
    \A r \in Requests :
        (IsSubmit(r) /\ pc[r] = "done" /\ resp[r] \notin {"Settled", "PendingReview"})
        => wrote[r] = {}

\* C5: the stored wallet balance is never negative.
C5_WalletNeverNegative == JsAtLeast[walletBalance, JsZero]

\* Two overlapping goal creations were both accepted although their deposits
\* fit the balance only one at a time.
C5_Witness ==
    \E r1, r2 \in Requests :
        /\ r1 # r2
        /\ IsCreate(r1) /\ resp[r1] = "Created"
        /\ IsCreate(r2) /\ resp[r2] = "Created"
        /\ JsAtMost[Num[loc[r1].depositAmount], wallet0]
        /\ JsAtMost[Num[loc[r2].depositAmount], wallet0]
        /\ loc[r1].depositAmount + loc[r2].depositAmount > Cents[wallet0]

\* C6: a goal creation that passes input validation and asks for a deposit
\* greater than the stored wallet balance is answered InsufficientFunds at
\* once, and changes neither the wallet nor the stored goals.
C6_InsufficientFunds ==
    [][\A r \in Requests :
          (/\ pc[r] = "idle" /\ pc'[r] # "idle"
           /\ loc'[r].op = "create"
           /\ loc'[r].titleLen >= MinTitleLength
           /\ loc'[r].depositAmount >= MinDeposit
           /\ loc'[r].depositAmount <= MaxDeposit
           /\ JsGreater[Num[loc'[r].depositAmount], walletBalance])
          => /\ pc'[r] = "done"
             /\ resp'[r] = "InsufficientFunds"
             /\ walletBalance' = walletBalance
             /\ goals' = goals]_vars

\* A goal creation was refused for lack of funds.
C6_Witness ==
    \E r \in Requests :
        /\ IsCreate(r) /\ pc[r] = "done" /\ resp[r] = "InsufficientFunds"
        /\ JsGreater[Num[loc[r].depositAmount], loc[r].userBalance]
        /\ wrote[r] = {}

\* C7: once the requests are over, the wallet has been debited once by the
\* deposit of every goal a creation request persisted (creation requests only).
C7_GoalPersistedIffDebited ==
    (AllDone /\ \A r \in Requests : IsCreate(r))
    => Cents[walletBalance] =
         Cents[wallet0] - SumOver(LAMBDA r : IF "goal" \in wrote[r]
                                      THEN loc[r].depositAmount ELSE 0, Requests)

\* C8: once requests that worked on different goals, a settlement among
\* them, are over, the wallet balance is the balance they started from plus
\* every amount released minus every deposit taken.
C8_NoLostWalletUpdate ==
    (/\ AllDone
     /\ \E r \in Requests : IsSubmit(r) /\ "user" \in wrote[r]
     /\ \A r1, r2 \in Requests :
            (r1 # r2 /\ "user" \in wrote[r1] /\ "user" \in wrote[r2])
            => loc[r1].goalId # loc[r2].goalId)
    => Cents[walletBalance] = Cents[wallet0] + SumOver(WalletDelta, Requests)

\* C9: a goal's status is completed exactly when all its milestones are
\* completed.
C9_CompletedIffAllMilestones ==
    \A g \in 1..Len(goals) :
        goals[g].status = "completed" <=> AllCompleted(goals[g].milestones)

\* The settlement condition as the claim states it.
ClaimedTrigger(p) ==
    p.selfCertify \/ (p.ai.available /\ p.ai.verified /\ p.ai.confidence >= 70)

\* C10: a proof submission that passed the checks on an active goal and a
\* milestone not yet completed takes the settlement branch exactly when the
\* proof is self-certified or assessed verified with confidence >= 70; one
\* answered as settled has credited the wallet and left the milestone stored
\* completed, one answered as pending review has credited nothing.
C10_SettlesIffTrigger ==
    \A r \in Requests :
        IsSubmit(r) =>
            /\ pc[r] \in {"submit_loadUser", "submit_saveUser", "submit_saveGoal"}
                    => ClaimedTrigger(loc[r].proof)
            /\ pc[r] = "submit_saveProof" => ~ClaimedTrigger(loc[r].proof)
            /\ resp[r] = "Settled"
                    => /\ ClaimedTrigger(loc[r].proof)
                       /\ "user" \in wrote[r]
                       /\ Target(r).isCompleted
            /\ resp[r] = "PendingReview"
                    => /\ ~ClaimedTrigger(loc[r].proof)
                       /\ "user" \notin wrote[r]

\* An externally assessed proof (verified, confidence 70) settled a milestone
\* while another one (verified, confidence 69) was left pending.
C10_Witness ==
    \E r1, r2 \in Requests :
        /\ IsSubmit(r1) /\ resp[r1] = "Settled" /\ ~loc[r1].proof.selfCertify
        /\ loc[r1].proof.ai.confidence = 70
        /\ IsSubmit(r2) /\ resp[r2] = "PendingReview" /\ loc[r2].proof.ai.verified
        /\ loc[r2].proof.ai.confidence = 69

(*********************** verification policy claims *************************)

\* The status the claim assigns to an assessment result.
ClaimedStatus(verified, confidence) ==
    IF verified /\ confidence >= 70 THEN "ai_approved"
    ELSE IF confidence < 50 THEN "manual_review"
    ELSE "pending"

\* Request r is a proof submission that passed the handler's checks and
\* whose proof went to the external assessment.
Assessed(r) == IsSubmit(r) /\ loc[r].aiCalled

\* C11: when the external assessment answers (verified, confidence in
\* 0..100), the milestone's verificationStatus is ai_approved for verified
\* with confidence >= 70, manual_review for confidence < 50 and pending
\* otherwise; verified with confidence 40 gives manual_review and no credit.
C11_StatusMapping ==
    \A r \in Requests :
        (Assessed(r) /\ loc[r].proof.ai.available) =>
            /\ loc[r].verificationStatus =
                    ClaimedStatus(loc[r].proof.ai.verified, loc[r].proof.ai.confidence)
            /\ (loc[r].proof.ai.verified /\ loc[r].proof.ai.confidence = 40)
                    => /\ loc[r].verificationStatus = "manual_review"
                       /\ "user" \notin wrote[r]

\* A proof assessed verified with confidence 40 was answered as pending
\* review with status manual_review, the wallet untouched.
C11_Witness ==
    \E r \in Requests :
        /\ Assessed(r) /\ resp[r] = "PendingReview"
        /\ loc[r].proof.ai = AiVerdict(TRUE, 40)
        /\ loc[r].verificationStatus = "manual_review"
        /\ walletBalance = wallet0

\* C12: when the external assessment fails or is not configured, the
\* submission yields verified=false with confidence 0, the milestone's
\* verificationStatus is pending, nothing is credited, and the answer is
\* not an error.
C12_DegradedPending ==
    \A r \in Requests :
        (Assessed(r) /\ ~loc[r].proof.ai.available) =>
            /\ loc[r].verification = [verified |-> FALSE, confidence |-> 0]
            /\ loc[r].verificationStatus = "pending"
            /\ "user" \notin wrote[r]
            /\ pc[r] = "done" => resp[r] = "PendingReview"

\* round2(deposit x percentage / 100) in cents: the quotient, rounded up
\* from half a cent.
ClaimedRelease(deposit, pct) ==
    LET q == (deposit * pct) \div 10000
        rest == (deposit * pct) % 10000
    IN  IF 2 * rest >= 10000 THEN q + 1 ELSE q

\* Request r is a self-certified proof with a reason that passed the
\* handler's checks (active goal, milestone not yet completed).
SelfCertified(r) ==
    IsSubmit(r) /\ loc[r].proof.selfCertify /\ loc[r].proof.reason

\* C13: a self-certified proof with a reason for a not yet completed
\* milestone of an active goal, handled without another request overlapping
\* it, yields verified=true with confidence 50 and
\* status self_certified without calling the external assessment, credits
\* round2(deposit x percentage / 100) to the wallet, stores that amount on
\* the milestone it settles, and leaves the goal active while another
\* milestone is incomplete.
C13_SelfCertification ==
    \A r \in Requests :
        SelfCertified(r) =>
            LET goal == goals[loc[r].goalId]
                release == ClaimedRelease(goal.depositAmount, Target(r).percentage)
            IN  /\ loc[r].verification = [verified |-> TRUE, confidence |-> 50]
                /\ loc[r].verificationStatus = "self_certified"
                /\ ~loc[r].aiCalled
                /\ pc[r] # "submit_saveProof"
                /\ "user" \in wrote[r]
                        => Cents[walletBalance] = Cents[wallet0] + release
                /\ resp[r] = "Settled"
                        => /\ Target(r).isCompleted
                           /\ Target(r).releasedAmount = release
                /\ ~AllCompleted(goal.milestones) => goal.status = "active"

\* A self-certified proof settled a 25% milestone of a goal with a deposit of
\* 40.00: 10.00 released, the wallet went from 60.00 to 70.00, the goal is
\* still active.
C13_Witness ==
    \E r \in Requests :
        /\ SelfCertified(r) /\ resp[r] = "Settled"
        /\ goals[loc[r].goalId].depositAmount = 4000
        /\ Target(r).percentage = 2500
        /\ Target(r).releasedAmount = 1000
        /\ wallet0 = Num[6000] /\ walletBalance = Num[7000]
        /\ goals[loc[r].goalId].status = "active"
        /\ loc[r].verificationStatus = "self_certified"

(****************************** planner claims *****************************)

\* Request r is a goal creation that reached the planner: plan holds the
\* percentages the planner handed on.
Planned(r) == IsCreate(r) /\ loc[r].plan # <<>>

\* C14: every plan the planner hands on, from the external proposal service
\* or from the fallback, has percentages that total 100 within 1 and that
\* each lie in [5, 50].
C14_PlanPercentages ==
    \A r \in Requests :
        Planned(r) =>
            /\ Abs(Total(loc[r].plan) - 10000) <= 100
            /\ \A i \in 1..Len(loc[r].plan) :
                    loc[r].plan[i] >= 500 /\ loc[r].plan[i] <= 5000

\* C15: a goal creation with a title of at least 5 characters, a valid
\* deposit and sufficient funds succeeds and persists a goal, whatever the
\* external proposal service does.
C15_PlannerNeverFails ==
    \A r \in Requests :
        (/\ IsCreate(r) /\ pc[r] = "done"
         /\ loc[r].titleLen >= 5
         /\ loc[r].depositAmount >= 100 /\ loc[r].depositAmount <= 1000000
         /\ loc[r].depositAmount <= Cents[wallet0])
        => resp[r] = "Created" /\ "goal" \in wrote[r]

\* Exactly four milestones whose percentages total exactly 100 and each lie
\* in [5, 50].
FourMilestonePlan(plan) ==
    /\ Len(plan) = 4
    /\ Total(plan) = 10000
    /\ \A i \in 1..Len(plan) : plan[i] >= 500 /\ plan[i] <= 5000

\* C16: when the external proposal service fails, times out or is not
\* configured, the planner hands on the fallback plan, which for every title
\* has exactly four milestones totalling exactly 100, each in [5, 50], and
\* is the plan of the goal created; the same holds of the second variant's
\* templates.
C16_FallbackPlan ==
    /\ \A r \in Requests :
          (Planned(r) /\ loc[r].service.kind # "answer") =>
              /\ FourMilestonePlan(loc[r].plan)
              /\ resp[r] = "Created" =>
                    Percentages(goals[loc[r].goalId]) = loc[r].plan
    /\ \A t \in Topics : FourMilestonePlan(FallbackPlanV2(t))

\* The proposal service timed out for a goal about sleep, and the goal was
\* created with the sleep template's four milestones.
C16_Witness ==
    \E r \in Requests :
        /\ Planned(r) /\ resp[r] = "Created"
        /\ loc[r].service.kind = "timeout" /\ loc[r].topic = "sleep"
        /\ Percentages(goals[loc[r].goalId]) = <<2500, 3000, 2500, 2000>>

(**************************** goal state claims ****************************)

\* C17: a goal's status only moves forward: an active goal stays active or
\* becomes completed, failed or abandoned, and a goal that is completed,
\* failed or abandoned keeps that status in every later state.
C17_StatusForwardOnly ==
    [][\A g \in 1..Len(goals) :
          /\ g \in 1..Len(goals')
          /\ goals[g].status \in {"completed", "failed", "abandoned"}
                => goals'[g].status = goals[g].status
          /\ goals'[g].status \in {goals[g].status, "completed", "failed", "abandoned"}]_vars

\* A request completed a goal by settling its last milestone, and another
\* request's write to that goal left it completed.
C17_Witness ==
    \E r1, r2 \in Requests :
        /\ r1 # r2
        /\ IsSubmit(r1) /\ resp[r1] = "Settled" /\ loc[r1].allCompleted
        /\ IsSubmit(r2) /\ pc[r2] = "done" /\ "goal" \in wrote[r2]
        /\ loc[r2].goalId = loc[r1].goalId
        /\ goals[loc[r1].goalId].status = "completed"

\* C18: a proof submitted against a stored goal whose status is not active
\* is answered InvalidGoalState at once, whatever the proof, and changes
\* neither the wallet nor any stored goal.
C18_InactiveGoalRejected ==
    [][\A r \in Requests :
          (/\ pc[r] = "idle" /\ pc'[r] # "idle"
           /\ loc'[r].op = "submit"
           /\ loc'[r].goalId \in 1..Len(goals)
           /\ goals[loc'[r].goalId].status # "active")
          => /\ pc'[r] = "done"
             /\ resp'[r] = "InvalidGoalState"
             /\ walletBalance' = walletBalance
             /\ goals' = goals]_vars

\* A proof for an outstanding milestone of an abandoned goal was turned
\* away; nothing was written.
C18_Witness ==
    \E r \in Requests :
        /\ IsSubmit(r) /\ resp[r] = "InvalidGoalState"
        /\ goals[loc[r].goalId].status = "abandoned"
        /\ ~Target(r).isCompleted
        /\ wrote[r] = {} /\ walletBalance = wallet0

\* C19: a milestone's releasedAmount is 0 while the milestone is not
\* settled, is round2(deposit x percentage / 100) once it is, and from then
\* on no step changes it, however the requests interleave.
C19_ReleasedAmountSetOnce ==
    /\ [](\A g \in 1..Len(goals) : \A m \in 1..Len(goals[g].milestones) :
            goals[g].milestones[m].releasedAmount =
                IF goals[g].milestones[m].isCompleted
                THEN ClaimedRelease(goals[g].depositAmount,
                                    goals[g].milestones[m].percentage)
                ELSE 0)
    /\ [][\A g \in 1..Len(goals) : \A m \in 1..Len(goals[g].milestones) :
            goals[g].milestones[m].isCompleted
                => goals'[g].milestones[m].releasedAmount =
                        goals[g].milestones[m].releasedAmount]_vars

\* Two overlapping requests both settled the same milestone, and its
\* releasedAmount is the amount the first one set.
C19_Witness ==
    \E r1, r2 \in Requests :
        /\ r1 # r2
        /\ IsSubmit(r1) /\ resp[r1] = "Settled"
        /\ IsSubmit(r2) /\ resp[r2] = "Settled"
        /\ loc[r1].goalId = loc[r2].goalId
        /\ loc[r1].milestoneId = loc[r2].milestoneId
        /\ Target(r1).releasedAmount > 0
        /\ Target(r1).releasedAmount = loc[r1].refundAmount

\* C20: a goal creation answered as created, handled without another
\* request overlapping it, has lowered the wallet balance
\* by exactly the deposit, returns the stored balance as the remaining
\* balance, and has stored one new goal, with that deposit and status
\* active, whose milestones all have isCompleted false and releasedAmount 0.
C20_CreateGoalEffect ==
    \A r \in Requests :
        (IsCreate(r) /\ resp[r] = "Created") =>
            /\ Cents[walletBalance] = Cents[wallet0] - loc[r].depositAmount
            /\ loc[r].userBalance = walletBalance
            /\ wrote[r] = {"goal", "user"}
            /\ loc[r].goalId = Len(goals)
            /\ goals[loc[r].goalId].depositAmount = loc[r].depositAmount
            /\ goals[loc[r].goalId].status = "active"
            /\ \A i \in 1..Len(goals[loc[r].goalId].milestones) :
                    /\ ~goals[loc[r].goalId].milestones[i].isCompleted
                    /\ goals[loc[r].goalId].milestones[i].releasedAmount = 0

\* A user with a balance of 100.00 created a goal with a deposit of 40.00:
\* the balance is 60.00 and the goal is active.
C20_Witness ==
    \E r \in Requests :
        /\ IsCreate(r) /\ resp[r] = "Created"
        /\ wallet0 = Num[10000] /\ loc[r].depositAmount = 4000
        /\ walletBalance = Num[6000] /\ loc[r].userBalance = Num[6000]
        /\ goals[loc[r].goalId].status = "active"
        /\ Len(goals[loc[r].goalId].milestones) = 4

\* Request r takes a step.
Acts(r) == pc'[r] # pc[r]

\* Request r arrives as a proof submission for a stored goal of another user.
ForeignSubmitArrives(r) ==
    /\ pc[r] = "idle" /\ pc'[r] # "idle"
    /\ loc'[r].op = "submit"
    /\ loc'[r].goalId \in 1..Len(goals)
    /\ goals[loc'[r].goalId].userId # loc'[r].userId

\* C21: a proof submission by a user who does not own the goal is answered
\* NotFound at once and changes neither wallet nor any goal; and no step of
\* a request made by one user changes the other user's wallet balance or a
\* goal the other user owns.
C21_Ownership ==
    [][\A r \in Requests :
          /\ ForeignSubmitArrives(r) =>
                /\ pc'[r] = "done"
                /\ resp'[r] = "NotFound"
                /\ walletBalance' = walletBalance
                /\ otherWallet' = otherWallet
                /\ goals' = goals
          /\ Acts(r) =>
                /\ loc'[r].userId = UserA => otherWallet' = otherWallet
                /\ loc'[r].userId = UserB => walletBalance' = walletBalance
                /\ Len(goals') >= Len(goals)
                /\ \A g \in 1..Len(goals) :
                      goals[g].userId # loc'[r].userId => goals'[g] = goals[g]]_vars

\* The second user submitted a proof for an outstanding milestone of the
\* first user's active goal and was answered NotFound, while a request of
\* the first user settled a milestone of that goal.
C21_Witness ==
    \E r1, r2 \in Requests :
        /\ IsSubmit(r1) /\ loc[r1].userId = UserB /\ resp[r1] = "NotFound"
        /\ loc[r1].goalId \in 1..Len(goals)
        /\ goals[loc[r1].goalId].userId = UserA
        /\ IsSubmit(r2) /\ loc[r2].userId = UserA /\ resp[r2] = "Settled"
        /\ loc[r2].goalId = loc[r1].goalId
        /\ otherWallet = WalletAfter(goals[2])

\* C22: every request that was received is eventually answered, and answered
\* once: a response is sent exactly when the handler ends, a sent response
\* is never replaced, and a request that was answered takes no further step.
\* A creation whose proposal call timed out is answered with the fallback
\* plan, and a submission whose assessment was unavailable with a review
\* outcome, each after the one call the request made.
C22_EventuallyOneResponse ==
    /\ \A r \in Requests : (pc[r] # "idle") ~> (pc[r] = "done" /\ resp[r] # "")
    /\ [](\A r \in Requests : resp[r] # "" <=> pc[r] = "done")
    /\ [][\A r \in Requests :
            /\ resp[r] # "" => resp'[r] = resp[r]
            /\ pc[r] = "done" => pc'[r] = "done" /\ loc'[r] = loc[r]]_vars
    /\ [](\A r \in Requests :
            /\ (IsCreate(r) /\ resp[r] = "Created" /\ loc[r].service.kind = "timeout")
                    => loc[r].plan = FallbackGeneric
            /\ (IsSubmit(r) /\ pc[r] = "done" /\ loc[r].aiCalled
                    /\ ~loc[r].proof.ai.available)
                    => /\ resp[r] = "PendingReview"
                       /\ loc[r].verificationStatus \in {"pending", "manual_review"})

\* A creation whose proposal call timed out was answered with the fallback
\* plan, and a submission whose assessment was unavailable was answered as
\* pending review.
C22_Witness ==
    \E r1, r2 \in Requests :
        /\ IsCreate(r1) /\ resp[r1] = "Created"
        /\ loc[r1].service.kind = "timeout" /\ loc[r1].plan = FallbackGeneric
        /\ IsSubmit(r2) /\ resp[r2] = "PendingReview"
        /\ loc[r2].aiCalled /\ ~loc[r2].proof.ai.available

\* Request r, a proof submission, was answered after the goal, its status
\* and the milestone were found in order: the body was looked at.
ShapeExamined(r) ==
    /\ IsSubmit(r) /\ pc[r] = "done"
    /\ resp[r] \notin {"NotFound", "InvalidGoalState", "AlreadyCompleted"}

\* The bodies the proof-shape rule rejects: a self-certification without a
\* reason, and a proof that is not self-certified and has neither a
\* description nor a URL.
ClaimedShapeRejected(p) ==
    \/ p.selfCertify /\ ~p.reason
    \/ ~p.selfCertify /\ ~p.description /\ p.proofUrl = ""

\* C23: a submitted body is rejected as invalid exactly when it is a
\* self-certification without a reason or a proof with neither description
\* nor URL (a proof with only a URL is accepted); a rejected body leaves
\* wallet and goals as they were and no assessment is asked for.
C23_ProofShape ==
    \A r \in Requests :
        ShapeExamined(r) =>
            /\ resp[r] = "ValidationError" <=> ClaimedShapeRejected(loc[r].proof)
            /\ resp[r] = "ValidationError" =>
                    /\ wrote[r] = {}
                    /\ ~loc[r].aiCalled
                    /\ walletBalance = wallet0

\* Request r arrives as a proof submission whose outcome is pending or
\* manual_review.
ReviewArrives(r) ==
    /\ pc[r] = "idle" /\ pc'[r] # "idle"
    /\ loc'[r].op = "submit"
    /\ loc'[r].verificationStatus \in {"pending", "manual_review"}

\* Request r, a proof submission whose outcome is pending or manual_review,
\* takes the step that ends it.
ReviewEnds(r) ==
    /\ IsSubmit(r) /\ pc[r] # "done" /\ pc'[r] = "done"
    /\ loc[r].verificationStatus \in {"pending", "manual_review"}

\* Stored goal document g with the proofUrl of its milestone m put aside.
ButProofUrl(g, m) == [g EXCEPT !.milestones[m].proofUrl = ""]

\* C24: a proof submission whose outcome is pending or manual_review finds
\* its milestone not completed with nothing released, releases nothing and
\* ends with the answer that the proof is under review: no step of it changes
\* a wallet, and of the stored goals its last step changes at most the proof
\* URL of its milestone (isCompleted, releasedAmount, the other milestones and
\* the goal's status stay as stored). When the submitted URL is refused by
\* the schema the request ends in an error and stores nothing.
C24_ReviewReleasesNothing ==
    [][\A r \in Requests :
          /\ ReviewArrives(r) =>
                /\ ~goals[loc'[r].goalId].milestones[loc'[r].milestoneId].isCompleted
                /\ goals[loc'[r].goalId].milestones[loc'[r].milestoneId].releasedAmount = 0
                /\ ~ClaimedTrigger(loc'[r].proof)
                /\ pc'[r] # "done"
                /\ UNCHANGED <<walletBalance, otherWallet, goals>>
          /\ ReviewEnds(r) =>
                /\ UNCHANGED <<walletBalance, otherWallet>>
                /\ "user" \notin wrote'[r]
                /\ Len(goals') = Len(goals)
                /\ \A g \in 1..Len(goals) :
                      IF g = loc[r].goalId
                      THEN ButProofUrl(goals'[g], loc[r].milestoneId)
                                = ButProofUrl(goals[g], loc[r].milestoneId)
                      ELSE goals'[g] = goals[g]
                /\ IF loc[r].proof.proofUrl = loc[r].loadedProofUrl
                   THEN resp'[r] = "PendingReview" /\ goals' = goals
                   ELSE IF ProofUrlValid(loc[r].proof.proofUrl)
                   THEN /\ resp'[r] = "PendingReview"
                        /\ Target(r)'.proofUrl = loc[r].proof.proofUrl
                   ELSE resp'[r] = "ServerError" /\ goals' = goals]_vars

\* A described proof with a URL whose assessment was unavailable was
\* answered as under review: its URL is stored, the milestone is not
\* completed, nothing is released and the wallet is what it was.
C24_Witness ==
    \E r \in Requests :
        /\ IsSubmit(r) /\ resp[r] = "PendingReview"
        /\ loc[r].verificationStatus = "manual_review"
        /\ Target(r).proofUrl = "https://proof"
        /\ ~Target(r).isCompleted /\ Target(r).releasedAmount = 0
        /\ goals[loc[r].goalId].status = "active"
        /\ walletBalance = wallet0

\* C25: no step removes a stored goal or changes a stored goal's owner, its
\* deposit, the number of its milestones or a milestone's percentage.
C25_GoalImmutable ==
    [][/\ Len(goals') >= Len(goals)
       /\ \A g \in 1..Len(goals) :
            /\ goals'[g].userId = goals[g].userId
            /\ goals'[g].depositAmount = goals[g].depositAmount
            /\ Len(goals'[g].milestones) = Len(goals[g].milestones)
            /\ Percentages(goals'[g]) = Percentages(goals[g])]_vars

\* A proof submission and a completion request each settled a milestone of
\* the first user's goal, which is stored with its deposit, its owner and
\* its four percentages as it was.
C25_Witness ==
    \E r1, r2 \in Requests :
        /\ IsSubmit(r1) /\ resp[r1] = "Settled"
        /\ loc[r2].op = "complete" /\ resp[r2] = "Completed"
        /\ loc[r1].goalId = 1 /\ loc[r2].goalId = 1
        /\ goals[1].userId = UserA
        /\ goals[1].depositAmount = 4000
        /\ Percentages(goals[1]) = FallbackSleep
        /\ AllCompleted(goals[1].milestones)

\* Request r, not a creation, credited a wallet or marked a milestone
\* completed.
Released(r) ==
    /\ loc[r].op \in {"submit", "complete"}
    /\ \/ "user" \in wrote[r]
       \/ "goal" \in wrote[r] /\ resp[r] # "PendingReview"

\* C26: a request that credited the wallet or marked a milestone completed
\* carried a proof whose outcome satisfies the settlement trigger: it was
\* self-certified, or assessed verified with confidence >= 70. A request on
\* the second variant's complete route releases nothing without such a proof.
C26_ReleaseNeedsTrigger ==
    \A r \in Requests :
        Released(r) => /\ loc[r].proof # NoProof
                       /\ ClaimedTrigger(loc[r].proof)

\* C27: a stored milestone that is completed is completed after every step,
\* whichever requests overlap: a submission under review that loaded the
\* goal before a settlement of the same milestone and saves after it leaves
\* the milestone completed.
C27_CompletedStaysCompleted ==
    [][\A g \in 1..Len(goals) : \A m \in 1..Len(goals[g].milestones) :
          goals[g].milestones[m].isCompleted
              => /\ g \in 1..Len(goals')
                 /\ m \in 1..Len(goals'[g].milestones)
                 /\ goals'[g].milestones[m].isCompleted]_vars

\* Two overlapping submissions for the same milestone were both accepted:
\* one settled it, the other was answered as under review and stored its
\* proof URL; the milestone is stored completed with its released amount.
C27_Witness ==
    \E r1, r2 \in Requests :
        /\ IsSubmit(r1) /\ resp[r1] = "Settled"
        /\ IsSubmit(r2) /\ resp[r2] = "PendingReview" /\ "goal" \in wrote[r2]
        /\ loc[r1].goalId = loc[r2].goalId
        /\ loc[r1].milestoneId = loc[r2].milestoneId
        /\ loc[r2].proof.proofUrl # loc[r2].loadedProofUrl
        /\ Target(r2).proofUrl = loc[r2].proof.proofUrl
        /\ Target(r2).isCompleted
        /\ Target(r2).releasedAmount = loc[r1].refundAmount

\* Request r is a goal creation for which the proposal service answered with
\* a candidate plan: a list of at least one milestone.
Answered(r) ==
    /\ IsCreate(r) /\ loc[r].service.kind = "answer"
    /\ loc[r].service.percentages # <<>>

\* weight * (100 / total), rounded to two decimals, in hundredths.
ClaimedRescale(weight, total) ==
    LET q == (weight * 10000) \div total
        rest == (weight * 10000) % total
    IN  IF 2 * rest >= total THEN q + 1 ELSE q

\* C28: of a candidate plan whose percentages total more than 5 away from
\* 100, the rescaling step makes a plan that totals 100 within 1, each
\* percentage being the candidate's times 100/total rounded to two decimals;
\* a candidate whose total is within 5 of 100 is left as it is.
C28_Rescaling ==
    \A r \in Requests :
        Answered(r) =>
            LET pcts == loc[r].service.percentages
                total == Total(pcts)
                out == Normalize(pcts)
            IN  IF Abs(total - 10000) > 500
                THEN /\ Len(out) = Len(pcts)
                     /\ Abs(Total(out) - 10000) <= 100
                     /\ \A i \in 1..Len(pcts) : out[i] = ClaimedRescale(pcts[i], total)
                ELSE out = pcts

\* Request r is a goal creation for which the proposal service answered with
\* fewer than three milestones.
TooFewAnswered(r) ==
    /\ IsCreate(r) /\ loc[r].service.kind = "answer"
    /\ Len(loc[r].service.percentages) < 3

\* Request r, a goal creation, was given the fallback plan of its title and
\* was answered, if it is over, as created with that plan stored.
FellBack(r) ==
    /\ loc[r].plan = FallbackPlan(loc[r].topic)
    /\ Len(loc[r].plan) = 4
    /\ pc[r] = "done" =>
            /\ resp[r] = "Created"
            /\ Percentages(goals[loc[r].goalId]) = FallbackPlan(loc[r].topic)

\* C29: every stored goal has between 3 and 8 milestones, and a creation for
\* which the proposal service answered with fewer than three milestones is
\* given the fallback plan: the goal is created with its four milestones.
C29_MilestoneCount ==
    /\ \A g \in 1..Len(goals) :
            Len(goals[g].milestones) >= 3 /\ Len(goals[g].milestones) <= 8
    /\ \A r \in Requests : (TooFewAnswered(r) /\ pc[r] = "done") => FellBack(r)

\* Request r is a goal creation for which the proposal service answered with
\* milestones of which a description is under 20 characters or holds a
\* generic phrase.
PoorlyDescribed(r) ==
    /\ Answered(r)
    /\ loc[r].service.description \in {"short", "generic"}

\* C30: a creation for which the proposal service answered with a milestone
\* description that is too short or holds a generic phrase is given the
\* fallback plan, so no goal is stored from such an answer.
C30_DescriptionsChecked ==
    \A r \in Requests : (PoorlyDescribed(r) /\ pc[r] = "done") => FellBack(r)

\* C31: a creation for which the proposal service answered with an
\* acceptable plan of which a description is longer than 500 characters is
\* answered as created: the description's length makes no creation fail.
C31_LongDescriptionStored ==
    \A r \in Requests :
        (/\ Answered(r) /\ pc[r] = "done"
         /\ loc[r].service.description = "long"
         /\ MilestoneCountOk(loc[r].plan)
         /\ PreSaveHookAccepts(loc[r].plan))
        => /\ resp[r] = "Created"
           /\ "goal" \in wrote[r]
           /\ Percentages(goals[loc[r].goalId]) = loc[r].plan

\* The template of the first category, in the order sleep, fitness,
\* learning, career, that a title about the given topic matches, and the
\* generic template when it matches none.
ClaimedTemplate(topic) ==
    IF topic = "sleep" THEN FallbackSleep
    ELSE IF topic = "fitness" THEN FallbackFitness
    ELSE IF topic = "learning" THEN FallbackLearning
    ELSE IF topic = "career" THEN FallbackCareer
    ELSE FallbackGeneric

\* C32: a creation for which the proposal service gave no plan is given the
\* four-milestone template of the category its title matches, among sleep,
\* fitness, learning, career and generic; the plan depends on the title only.
C32_FallbackByCategory ==
    \A r \in Requests :
        (Planned(r) /\ loc[r].service.kind # "answer")
            => /\ Len(loc[r].plan) = 4
               /\ loc[r].plan = ClaimedTemplate(loc[r].topic)

\* C33: a submission answered as settled, handled without another request
\* overlapping it, returns the released amount, which is the amount stored
\* on the milestone; the new balance, which is the balance before the call
\* plus that amount and is the stored balance; and goalCompleted, which is
\* true exactly when every milestone of the stored goal is completed, which
\* is when its status is completed.
C33_SettlementResponse ==
    \A r \in Requests :
        (IsSubmit(r) /\ resp[r] = "Settled") =>
            LET g == goals[loc[r].goalId] IN
            /\ Target(r).releasedAmount = loc[r].refundAmount
            /\ Cents[loc[r].userBalance] = Cents[wallet0] + loc[r].refundAmount
            /\ walletBalance = loc[r].userBalance
            /\ loc[r].allCompleted <=> AllCompleted(g.milestones)
            /\ loc[r].allCompleted <=> g.status = "completed"

\* A submission settled the last outstanding milestone of a goal and
\* returned goalCompleted true with the balance raised by the 20% released;
\* the goal is stored completed.
C33_Witness ==
    \E r \in Requests :
        /\ IsSubmit(r) /\ resp[r] = "Settled"
        /\ loc[r].allCompleted
        /\ goals[loc[r].goalId].status = "completed"
        /\ loc[r].refundAmount = 800
        /\ Cents[walletBalance] = Cents[wallet0] + 800
        /\ loc[r].userBalance = walletBalance

\* Request r arrives as a goal creation.
CreateArrives(r) ==
    /\ pc[r] = "idle" /\ pc'[r] # "idle"
    /\ loc'[r].op = "create"

\* The bodies the creation rule rejects: a title of fewer than 5 characters
\* between its first and last non-blank character, and a deposit that is
\* missing, under 1 or over 10000.
ClaimedInvalidCreation(title, deposit) ==
    \/ title.chars < 5
    \/ deposit = 0 \/ deposit < 100 \/ deposit > 1000000

\* C34: a goal creation whose title has fewer than 5 characters once trimmed,
\* or whose deposit is missing, under 1 or over 10000, is answered
\* ValidationError at once: no user is looked up, no plan is asked for, and
\* wallet and goals are unchanged. Every other body passes the validation.
C34_CreateValidation ==
    [][\A r \in Requests :
          CreateArrives(r) =>
            IF ClaimedInvalidCreation(loc'[r].title, loc'[r].depositAmount)
            THEN /\ pc'[r] = "done"
                 /\ resp'[r] = "ValidationError"
                 /\ loc'[r].userBalance = JsZero
                 /\ loc'[r].service = NoService
                 /\ UNCHANGED <<walletBalance, otherWallet, goals, wrote>>
            ELSE resp'[r] # "ValidationError"]_vars

\* A creation with a deposit of 40 and a title of 4 characters between
\* blanks, 7 characters as sent, was answered ValidationError, with the
\* wallet as it was and nothing written.
C34_Witness ==
    \E r \in Requests :
        /\ IsCreate(r) /\ resp[r] = "ValidationError"
        /\ loc[r].title = Title(3, 4) /\ loc[r].depositAmount = 4000
        /\ walletBalance = wallet0 /\ wrote[r] = {}

\* C35: once the requests are answered, each user's wallet balance is the
\* starting balance of 100, less the deposits of the user's stored goals,
\* plus the amounts released on their milestones, as the wallet endpoint
\* reports them.
C35_WalletAccounting ==
    AllDone =>
        \A u \in Users :
            Cents[Balance(u)] = 10000 - Cents[TotalDepositedOf(goals, u)]
                                      + Cents[TotalRefundedOf(goals, u)]

\* C36: a stored milestone that a proof submission wrote has, when it is
\* completed, the verification status ai_approved or self_certified; when
\* an amount is released on it, it is completed; and when its verification
\* status is pending or manual_review, nothing is released on it.
C36_StatusMatchesCompletion ==
    \A r \in Requests :
        (IsSubmit(r) /\ "goal" \in wrote[r]) =>
            /\ Target(r).isCompleted =>
                    StoredVerificationStatus(Target(r))
                        \in {"ai_approved", "self_certified"}
            /\ Target(r).releasedAmount > 0 => Target(r).isCompleted
            /\ StoredVerificationStatus(Target(r)) \in {"pending", "manual_review"}
                    => Target(r).releasedAmount = 0

RegisteredWith(q, r) ==
    /\ loc[q].op = "register" /\ resp[q] = "Created"
    /\ ToLowerCase(loc[q].email) = ToLowerCase(loc'[r].email)
    /\ loc[q].password = loc'[r].password
LoginAnswered(r) == pc[r] # "done" /\ pc'[r] = "done" /\ loc'[r].op = "login"
(* C37: a login that is answered after a registration with the same email  *)
(* and the same password was answered 201 succeeds.                        *)
C37_RegisterLoginRoundTrip ==
    [][\A r \in Requests :
          LoginAnswered(r) /\ (\E q \in Requests : RegisteredWith(q, r))
             => resp'[r] = "LoggedIn"]_vars

CompleteGoalCalled(r) == pc[r] = "idle" /\ loc'[r].op = "completeGoal"
(* C38: completeGoal returns true exactly when the goal is active and every *)
(* milestone is completed (also when it has none); then the document's     *)
(* status is completed and its completedAt is the call's date; otherwise   *)
(* the document is as it was.  Nothing is stored by the call.              *)
C38_CompleteGoal ==
    [][\A r \in Requests :
          CompleteGoalCalled(r) =>
             LET before == goals[loc'[r].goalId]
                 after == loc'[r].goal
             IN  /\ loc'[r].returned <=>
                       /\ before.status = "active"
                       /\ \A i \in 1..Len(before.milestones) :
                             before.milestones[i].isCompleted
                 /\ loc'[r].returned =>
                       /\ after.status = "completed"
                       /\ after.completedAt = "now"
                       /\ after.milestones = before.milestones
                 /\ ~loc'[r].returned => after = before
                 /\ goals' = goals]_vars

\* A call on an active goal whose four milestones are all completed returned
\* true and completed the document.
C38_Witness ==
    \E r \in Requests :
        /\ loc[r].op = "completeGoal" /\ loc[r].returned
        /\ goals[loc[r].goalId].status = "active"
        /\ Len(goals[loc[r].goalId].milestones) = 4
        /\ loc[r].goal.status = "completed"

UpdateCalled(r) == pc[r] = "idle" /\ loc'[r].op = "updateWalletBalance"
UpdateThrew(r) ==
    /\ pc'[r] = "done" /\ loc'[r].threw # ""
    /\ loc'[r].userBalance = walletBalance
    /\ walletBalance' = walletBalance
(* C39: updateWalletBalance: a subtract of more than the balance throws    *)
(* and leaves the balance as it was, in memory and as stored, with no save *)
(* pending; add and any other subtract change the document's balance by    *)
(* exactly the amount; any other operation throws and changes nothing; a   *)
(* non-negative amount never leaves a negative balance; and what the save  *)
(* stores is the document's balance.                                       *)
C39_UpdateWalletBalance ==
    [][\A r \in Requests :
          /\ UpdateCalled(r) =>
                LET amount == loc'[r].amount
                    operation == loc'[r].operation
                IN  /\ operation = "subtract" /\ JsGreater[Num[amount], walletBalance]
                          => UpdateThrew(r)
                    /\ operation = "subtract" /\ JsAtMost[Num[amount], walletBalance]
                          => /\ Cents[loc'[r].userBalance] = Cents[walletBalance] - amount
                             /\ loc'[r].threw = ""
                    /\ operation = "add"
                          => /\ Cents[loc'[r].userBalance] = Cents[walletBalance] + amount
                             /\ loc'[r].threw = ""
                    /\ operation \notin {"add", "subtract"} => UpdateThrew(r)
                    /\ amount >= 0 => JsAtLeast[loc'[r].userBalance, JsZero]
          /\ pc[r] = "method_save" /\ pc'[r] = "done"
                => walletBalance' \in {walletBalance, loc[r].userBalance}]_vars

\* A subtract of 100.00 from a wallet of 50.00 threw and the wallet is still
\* 50.00.
C39_Witness ==
    \E r \in Requests :
        /\ loc[r].op = "updateWalletBalance" /\ loc[r].operation = "subtract"
        /\ loc[r].amount = StartingBalance /\ loc[r].loadedBalance = Num[5000]
        /\ resp[r] = "Threw" /\ walletBalance = Num[5000]

============================================================================
